---- MODULE Spec2Model ----
(***************************************************************************)
(* Zenith digital planner: the Storage module (localStorage document       *)
(* store, task / habit repositories, streak derivation, export / import)   *)
(* and the focus-session timer of the App module.                          *)
(*                                                                         *)
(* Representation.                                                         *)
(*   - An ISO date string "YYYY-MM-DD" is its day ordinal (an integer);    *)
(*     the lexicographic order of the fixed-width strings is the order of  *)
(*     the ordinals.                                                       *)
(*   - A JS Date (an instant) is a number of hours since the epoch, UTC.   *)
(*   - A value that may be null is a sequence: <<>> is null, <<v>> is v.   *)
(*   - localStorage is a function from the storage keys to what            *)
(*     Storage.get reads under the key: null when no item is stored,       *)
(*     <<v>> for a stored array, object or non-empty string v, and a       *)
(*     pair <<type, literal>> for a stored 0, false or "".                 *)
(***************************************************************************)
EXTENDS Integers, Sequences, FiniteSets, TLC

\* ------------------------------------------------------------------ bounds
MaxDay == 2            \* ISO dates are the days FirstDay..FirstDay + MaxDay
MaxHabits == 1         \* ids handed out before no more habits are created
MaxCompleted == 2      \* completed dates stored, over all habits
MaxTasks == 1          \* tasks stored at a time
MaxHours == 1          \* hours that pass on the hour clock
MaxIntervals == 2      \* setInterval registrations ever made
MaxPomodoro == 1       \* longest pomodoroLength (minutes) a session is started with
MaxListLen == 3        \* length of the date lists given to calculateStreak
MaxBlocks == 1         \* time blocks are added while fewer than MaxBlocks ids are out
MaxWeeks == 1          \* the weekly view is moved at most MaxWeeks weeks either way
MaxObjectives == 1     \* ids handed out before no more weekly objectives are created
MaxGoals == 1          \* ids handed out before no more goals are created
MaxPercent == 101      \* getCapacityStatus is given the percents 0..MaxPercent
MaxPlanned == 130      \* calculateCapacityPercent is given 0..MaxPlanned planned minutes (and 600)
MaxCapacity == 5       \* and a capacity of 1..MaxCapacity hours
MaxBars == 3           \* generateBarHeights is given at most MaxBars values
MaxBarValue == 4       \* each in 0..MaxBarValue (and two lists of larger values)
MaxMonth == 8          \* getCalendarDays is given the months FirstMonth..FirstMonth + MaxMonth
MaxUtilDay == 7        \* the Utils date functions are given instants of the days FirstUtilDay..FirstUtilDay + MaxUtilDay

VARIABLES
    store,               \* localStorage, as read by Storage.get
    now,                 \* the wall clock: hours since the epoch, UTC
    tz,                  \* the host's time zone (fixed for a run)
    onboarding,          \* the onboarding dialog: whether it is shown, and the
                         \* currentStep and userData of App.handleOnboarding
    settingsForm,        \* the settings dialog: whether it is shown, and the
                         \* value of each of its six fields
    currentWeek,         \* App.currentWeek: the week the weekly view shows
    setItemThrows,       \* localStorage.setItem throws (quota exceeded)
    utilArgs,            \* the Utils function called and its arguments (pure-function runs)
    utilResult,          \* <<>> or <<what that function returned>>
    nextId,              \* number of ids generateId has handed out
    focusTimer,          \* App.focusTimer: <<>> or <<interval id>>
    focusTimeRemaining,  \* App.focusTimeRemaining (seconds)
    focusTaskId,         \* App.focusTaskId: <<>> or <<task id>>
    intervals,           \* live setInterval registrations -> their isPaused
    nextInterval,        \* number of setInterval registrations made
    pauseBound,          \* the registration the pause button toggles
    exported,            \* <<>> or <<the document of the last exportData>>
    toggles,             \* history: <<habit id, date>> of a stored habit toggled an odd number of times
    lastOp,              \* history: the last operation, the id it was given or made,
                         \* and whether it returned a record / true (not null / false)
    streakInput,         \* the list handed to calculateStreak (pure-function runs)
    streakResult         \* <<>> or <<what calculateStreak returned for streakInput>>

vars == <<store, now, tz, onboarding, settingsForm, currentWeek, setItemThrows, utilArgs, utilResult, nextId, focusTimer, focusTimeRemaining, focusTaskId,
          intervals, nextInterval, pauseBound, exported, toggles, lastOp,
          streakInput, streakResult>>

\* Days are counted from 1970-01-01: 2006-01-01 comes 36 years later, nine
\* of them leap years.  TransitionDay is 2006-10-29, its 302nd day, the day
\* daylight saving time ends in the zones of TimeZones; `now` starts at its
\* midnight UTC and the ISO dates handled are the days around it.
BaseMonthFirst == 36 * 365 + 9
TransitionDay == BaseMonthFirst + 301
FirstDay == TransitionDay - (MaxDay - 1)

Days == FirstDay..(FirstDay + MaxDay)

\* Ids generateId hands out before the model stops creating records.
MaxIds == MaxTasks + MaxHabits

Ids == 1..MaxIds

\* The ids a habit can have.
HabitIds == 1..MaxHabits

Null == <<>>

Some(v) == <<v>>

\* ------------------------------------------------------- dates and zones
\* The host time zone: local time is UTC + before up to the instant `at`,
\* UTC + after from it on (one daylight-saving transition in the window).
\* The transitions are those of Sunday 2006-10-29: Europe/London leaves
\* summer time at 01:00 UTC, America/New_York at 06:00 UTC.  Each zone has
\* this one transition between 2006-04-02T07:00Z and 2007-03-11T07:00Z, and
\* every instant the model handles lies between the two.
TimeZones ==
    { [name |-> "UTC", before |-> 0, after |-> 0, at |-> TransitionDay * 24],
      [name |-> "Europe/London", before |-> 1, after |-> 0, at |-> TransitionDay * 24 + 1],
      [name |-> "America/New_York", before |-> -4, after |-> -5, at |-> TransitionDay * 24 + 6] }

\* Offset of local time from UTC at the instant u.
LocalOffset(u) == IF u < tz.at THEN tz.before ELSE tz.after

\* The instant of a local wall-clock time w: a repeated time is read with the
\* offset before the transition, and so is a skipped one.
LocalToUTC(w) ==
    IF w - tz.before < tz.at THEN w - tz.before
    ELSE IF w - tz.after >= tz.at THEN w - tz.after
    ELSE w - tz.before

\* date.setDate(date.getDate() + k): k local calendar days later, same local
\* time of day.
SetDateRel(u, k) == LocalToUTC(u + LocalOffset(u) + 24 * k)

\* date.toISOString().split('T')[0]: the UTC calendar day of an instant.
ToISODate(u) == u \div 24

\* Utils.formatDateStr.
formatDateStr(date) == ToISODate(date)

\* new Date("YYYY-MM-DD"): midnight UTC of the day.
ParseISODate(d) == d * 24

\* Utils.getTodayStr and the `today` of calculateStreak.
getTodayStr == ToISODate(now)

\* Date.prototype.getDay of the calendar day with this ordinal: 0 is Sunday;
\* day 0 (1970-01-01) is a Thursday, so TransitionDay is a Sunday.
DayOfWeek(ordinal) == (ordinal + 4) % 7

\* The local calendar day (ordinal) of the instant u.
LocalDay(u) == (u + LocalOffset(u)) \div 24

\* d.getDay() in local time.
getDay(u) == DayOfWeek(LocalDay(u))

\* d.setHours(0, 0, 0, 0): local midnight of d's local day.
SetHoursZero(u) == LocalToUTC(LocalDay(u) * 24)

\* Mutant of getWeekStart: the week starts on Sunday.
getWeekStart_FromSunday(date) == SetHoursZero(SetDateRel(date, 0 - getDay(date)))

\* Utils.getWeekStart: d.setDate(d.getDate() - day + (day === 0 ? -6 : 1)),
\* then the time of day zeroed.
getWeekStart(date) ==
    LET day == getDay(date)
        diff == (IF day = 0 THEN -6 ELSE 1) - day
    IN SetHoursZero(SetDateRel(date, diff))

\* ------------------------------------------------------------ sequences
RECURSIVE InsertAsc(_, _)
InsertAsc(x, s) ==
    IF s = <<>> THEN <<x>>
    ELSE IF x <= Head(s) THEN <<x>> \o s
    ELSE <<Head(s)>> \o InsertAsc(x, Tail(s))

\* Array.prototype.sort on ISO date strings: ascending, duplicates kept.
RECURSIVE Sort(_)
Sort(s) == IF s = <<>> THEN <<>> ELSE InsertAsc(Head(s), Sort(Tail(s)))

Reverse(s) == [i \in 1..Len(s) |-> s[Len(s) + 1 - i]]

Range(s) == { s[i] : i \in 1..Len(s) }

\* Array.prototype.indexOf, 1-based; 0 when absent (JS: -1).
IndexOf(s, x) ==
    IF x \in Range(s) THEN CHOOSE i \in 1..Len(s) : s[i] = x /\ \A j \in 1..(i - 1) : s[j] # x
    ELSE 0

\* Array.prototype.splice(index, 1).
RemoveAt(s, i) == [j \in 1..(Len(s) - 1) |-> IF j < i THEN s[j] ELSE s[j + 1]]

Max(a, b) == IF a >= b THEN a ELSE b

\* ------------------------------------------------------- calendar grid
\* Months are counted from January 1970: index 0; (year, month) of the Date
\* constructor, month overflowing into the years, is index
\* (year - 1970) * 12 + month.
MonthIndex(year, month) == (year - 1970) * 12 + month

IsLeapYear(year) == (year % 4 = 0 /\ year % 100 # 0) \/ year % 400 = 0

\* Days of the month with index m.
DaysInMonth(m) ==
    LET year == 1970 + (m \div 12)
        month == m % 12
    IN IF month = 1 THEN (IF IsLeapYear(year) THEN 29 ELSE 28)
       ELSE IF month \in {3, 5, 8, 10} THEN 30
       ELSE 31

\* The ordinal of the first day of the month with index m.
\* January 2006 has index BaseMonth and starts BaseMonthFirst days after
\* 1970-01-01.
BaseMonth == MonthIndex(2006, 0)

\* The first month getCalendarDays is given: May 2006.
FirstMonth == MonthIndex(2006, 4)

RECURSIVE FirstOfMonth(_)
FirstOfMonth(m) ==
    IF m = BaseMonth THEN BaseMonthFirst
    ELSE IF m > BaseMonth THEN FirstOfMonth(m - 1) + DaysInMonth(m - 1)
    ELSE FirstOfMonth(m + 1) - DaysInMonth(m)

\* The index of the month the day with this ordinal lies in.
MonthOf(ordinal) ==
    CHOOSE m \in (FirstMonth - 2)..(FirstMonth + MaxMonth + 3) :
        FirstOfMonth(m) <= ordinal /\ ordinal < FirstOfMonth(m + 1)

\* new Date(year, month, day): local midnight; day 0 and below count back
\* from the first of the month, days past its end run into the next one.
MakeDate(year, month, day) ==
    LocalToUTC((FirstOfMonth(MonthIndex(year, month)) + day - 1) * 24)

\* date.getDate(): the local day of the month.
getDate(u) == LocalDay(u) - FirstOfMonth(MonthOf(LocalDay(u))) + 1

\* Utils.isToday for a Date: same local day as now.
isToday(u) == LocalDay(u) = LocalDay(now)

\* A cell of the grid.
Cell(date, dayNum, isOtherMonth, today) ==
    [date |-> date, dateStr |-> ToISODate(date), dayNum |-> dayNum,
     isOtherMonth |-> isOtherMonth, isToday |-> today]

\* Mutant of StartDay: the grid starts on Sunday.
StartDay_SundayFirst(firstDay) == getDay(firstDay)

\* startDay of getCalendarDays: cells before the first of the month.
StartDay(firstDay) == IF getDay(firstDay) - 1 = 0 - 1 THEN 6 ELSE getDay(firstDay) - 1

getCalendarDays(year, month) ==
    LET firstDay == MakeDate(year, month, 1)
        lastDay == MakeDate(year, month + 1, 0)
        startDay == StartDay(firstDay)
        previous == [j \in 1..startDay |->
                        LET date == MakeDate(year, month, 0 - (startDay - j))
                        IN Cell(date, getDate(date), TRUE, FALSE)]
        current == [i \in 1..getDate(lastDay) |->
                        LET date == MakeDate(year, month, i)
                        IN Cell(date, i, FALSE, isToday(date))]
        remaining == 42 - (Len(previous) + Len(current))
        next == [i \in 1..remaining |->
                        Cell(MakeDate(year, month + 1, i), i, TRUE, FALSE)]
    IN previous \o current \o next

\* ------------------------------------------------------------ capacity
\* Mutant of getCapacityStatus: 80 percent is already a warning.
getCapacityStatus_WarnAt80(percent) ==
    IF percent < 80 THEN ""
    ELSE IF percent <= 100 THEN "warning"
    ELSE "danger"

\* Utils.getCapacityStatus.
getCapacityStatus(percent) ==
    IF percent <= 80 THEN ""
    ELSE IF percent <= 100 THEN "warning"
    ELSE "danger"

\* Arguments <<planned, capacity>>, for planned <= 601 and capacity <= 6,
\* whose exact percentage ends in one half but for which the double
\* (planned / capacityMinutes) * 100 is the nearest double below it
\* (69 / 120 * 100 is 57.49999999999999).
ProductBelowHalf ==
    { <<69, 2>>, <<123, 2>>, <<153, 2>>, <<261, 2>>, <<291, 2>>, <<507, 2>>,
      <<537, 2>>, <<567, 2>>, <<597, 2>>, <<138, 4>>, <<246, 4>>, <<306, 4>>,
      <<522, 4>>, <<582, 4>>, <<207, 6>>, <<369, 6>>, <<459, 6>>}

\* Utils.calculateCapacityPercent: Math.round (halves go up) of the double
\* (planned / capacityMinutes) * 100.
calculateCapacityPercent(planned, capacity) ==
    LET capacityMinutes == capacity * 60
        halfUp == (2 * planned * 100 + capacityMinutes) \div (2 * capacityMinutes)
    IN IF <<planned, capacity>> \in ProductBelowHalf THEN halfUp - 1 ELSE halfUp

\* t.duration || 30
DurationOr30(t) == IF "duration" \in DOMAIN t /\ t.duration # 0 THEN t.duration ELSE 30

\* tasks.reduce((sum, t) => sum + (t.duration || 30), 0)
RECURSIVE PlannedMinutes(_)
PlannedMinutes(tasks) ==
    IF tasks = <<>> THEN 0
    ELSE DurationOr30(Head(tasks)) + PlannedMinutes(Tail(tasks))

\* --------------------------------------------------------------- charts
\* Math.max(...data, 1)
RECURSIVE MaxOfData(_)
MaxOfData(data) == IF data = <<>> THEN 1 ELSE Max(Head(data), MaxOfData(Tail(data)))

\* Arguments <<value, max, maxHeight>>, for max <= 60 and maxHeight 100 or
\* 150, whose exact height ends in one half but for which the double
\* (value / max) * maxHeight is the nearest double below it
\* (23 / 40 * 100 is 57.49999999999999).
HeightBelowHalf == { <<23, 40, 100>>, <<11, 60, 150>> }

\* Math.round((value / max) * maxHeight): halves go up.
BarHeight(value, max, maxHeight) ==
    LET halfUp == (2 * value * maxHeight + max) \div (2 * max)
    IN IF <<value, max, maxHeight>> \in HeightBelowHalf THEN halfUp - 1 ELSE halfUp

\* Utils.generateBarHeights.
generateBarHeights(data, maxHeight) ==
    LET max == MaxOfData(data)
    IN [i \in 1..Len(data) |-> BarHeight(data[i], max, maxHeight)]

\* ---------------------------------------------------------- the store
KEYS ==
    [USER |-> "zenith_user",
     TASKS |-> "zenith_tasks",
     HABITS |-> "zenith_habits",
     GOALS |-> "zenith_goals",
     TIME_BLOCKS |-> "zenith_timeblocks",
     DAILY_DATA |-> "zenith_daily_data",
     WEEKLY_OBJECTIVES |-> "zenith_weekly_objectives",
     SETTINGS |-> "zenith_settings",
     THEME |-> "zenith_theme"]

\* Object.keys(KEYS) and Object.values(KEYS).
KeyNames == DOMAIN KEYS

StorageKeys == { KEYS[k] : k \in KeyNames }

\* Other items localStorage can hold: keys a backup document may name that
\* are not among Object.values(KEYS).
OtherKeys == {"TASKS", "app_version"}

\* Storage.get: the parsed item, null when there is none.
Get(s, key) == s[key]

\* Mutant of Set: the item is written although setItem throws.
Set_Unchecked(s, key, data) == [s EXCEPT ![key] = data]

\* Storage.set: the item under key becomes JSON.stringify(data); a stored JSON
\* null is read back as null by get. An exception of setItem is caught and
\* nothing is written.
Set(s, key, data) == IF setItemThrows THEN s ELSE [s EXCEPT ![key] = data]

\* Storage.remove.
Remove(s, key) == [s EXCEPT ![key] = Null]

\* Storage.clearAll: every key of Object.values(KEYS) removed.
ClearAllOn(s) ==
    [key \in DOMAIN s |-> IF key \in StorageKeys THEN Remove(s, key)[key] ELSE s[key]]

DefaultGoals ==
    [yearly |-> <<>>, monthly |-> <<>>,
     lifeAreas |-> [career |-> <<>>, health |-> <<>>, relationships |-> <<>>,
                    finance |-> <<>>, learning |-> <<>>, creativity |-> <<>>]]

DefaultSettings ==
    [workStart |-> "09:00", workEnd |-> "17:00", dailyCapacity |-> 5,
     pomodoroLength |-> 25, breakLength |-> 5]

\* The default Storage.init writes under key; only these seven keys have one.
InitDefaults ==
    [k \in {KEYS.TASKS, KEYS.HABITS, KEYS.TIME_BLOCKS, KEYS.DAILY_DATA,
            KEYS.WEEKLY_OBJECTIVES, KEYS.GOALS, KEYS.SETTINGS} |->
        IF k = KEYS.GOALS THEN DefaultGoals
        ELSE IF k = KEYS.SETTINGS THEN DefaultSettings
        ELSE <<>>]

\* What Storage.get reads is null (no item), <<v>> for an item whose JSON
\* value v is an array, an object or a non-empty string, or one of these
\* for an item whose JSON value is the number 0, false or the empty string.
JsonZero == <<"number", "0">>
JsonFalse == <<"boolean", "false">>
JsonEmptyString == <<"string", "">>

FalsyValues == {JsonZero, JsonFalse, JsonEmptyString}

\* `!this.get(key)`, and the left side of `this.get(key) || ...`: null, and
\* an item whose JSON value is falsy.
Falsy(v) == v = Null \/ v \in FalsyValues

\* Storage.init: each of the seven keys gets its default if get reads a falsy
\* value under it.
StorageInitOn(s) ==
    [key \in DOMAIN s |->
        IF key \in DOMAIN InitDefaults /\ Falsy(Get(s, key))
        THEN Set(s, key, Some(InitDefaults[key]))[key]
        ELSE s[key]]

EmptyStore == [key \in StorageKeys \union OtherKeys |-> Null]

\* Storage.getUser: what get reads under the user key.
getUser(s) == Get(s, KEYS.USER)

\* Storage.setUser.
setUser(s, user) == Set(s, KEYS.USER, Some(user))

\* Storage.hasCompletedOnboarding: `user && user.onboardingComplete === true`,
\* as the condition of App.init reads it; a user record saved without the
\* field has it undefined.
hasCompletedOnboarding(s) ==
    /\ ~Falsy(getUser(s))
    /\ "onboardingComplete" \in DOMAIN getUser(s)[1]
    /\ getUser(s)[1].onboardingComplete = TRUE

\* Storage.getTasks / getHabits: `this.get(key) || []`.
OrEmpty(v) == IF Falsy(v) THEN <<>> ELSE v[1]

getTasks(s) == OrEmpty(Get(s, KEYS.TASKS))

getHabits(s) == OrEmpty(Get(s, KEYS.HABITS))

\* Storage.generateId: an id no earlier call returned.
generateId == nextId + 1

\* ------------------------------------------------------ streak derivation
\* The for loop of calculateStreak from index i on (1-based), with the
\* streak so far and the Date object currentDate.
RECURSIVE StreakWalk(_, _, _, _)
StreakWalk(sortedDates, i, streak, currentDate) ==
    IF i > Len(sortedDates) THEN streak
    ELSE LET prevDate == SetDateRel(currentDate, -1)
         IN IF sortedDates[i] = ToISODate(prevDate)
            THEN StreakWalk(sortedDates, i + 1, streak + 1, prevDate)
            ELSE streak

calculateStreak(completedDates) ==
    IF Len(completedDates) = 0 THEN 0
    ELSE LET sortedDates == Reverse(Sort(completedDates))
             today == ToISODate(now)
             yesterday == ToISODate(now - 24)
         IN IF sortedDates[1] # today /\ sortedDates[1] # yesterday
            THEN 0
            ELSE StreakWalk(sortedDates, 2, 1, ParseISODate(sortedDates[1]))

\* ------------------------------------------------------------- habits
\* { ...a, ...b }: the fields of b over those of a.
Merge(a, b) ==
    [k \in (DOMAIN a) \union (DOMAIN b) |-> IF k \in DOMAIN b THEN b[k] ELSE a[k]]

\* What showAddHabitModal hands to Storage.addHabit.
HabitInputs == { [name |-> "Read", frequency |-> f] : f \in {"daily", "weekly"} }

\* The record Storage.addHabit builds.
NewHabit(habit) ==
    Merge([id |-> generateId, createdAt |-> now, completedDates |-> <<>>,
           currentStreak |-> 0, longestStreak |-> 0], habit)

addHabit(s, habit) == Set(s, KEYS.HABITS, Some(Append(getHabits(s), NewHabit(habit))))

\* habits.find(h => h.id === habitId), as an index; 0 when there is none.
FindIndex(list, id) ==
    IF \E i \in 1..Len(list) : list[i].id = id
    THEN CHOOSE i \in 1..Len(list) : list[i].id = id /\ \A j \in 1..(i - 1) : list[j].id # id
    ELSE 0

\* Mutants of ToggledHabit, each a slip the code could make.
\* The watermark is not raised.
ToggledHabit_KeepLongest(habit, dateStr) ==
    LET index == IndexOf(habit.completedDates, dateStr)
        dates == IF index > 0 THEN RemoveAt(habit.completedDates, index)
                 ELSE Append(habit.completedDates, dateStr)
    IN [habit EXCEPT !.completedDates = dates,
                     !.currentStreak = calculateStreak(dates)]

\* The watermark is overwritten by the current streak.
ToggledHabit_ResetLongest(habit, dateStr) ==
    LET index == IndexOf(habit.completedDates, dateStr)
        dates == IF index > 0 THEN RemoveAt(habit.completedDates, index)
                 ELSE Append(habit.completedDates, dateStr)
    IN [habit EXCEPT !.completedDates = dates,
                     !.currentStreak = calculateStreak(dates),
                     !.longestStreak = calculateStreak(dates)]

\* The streak is recomputed only when a date is added.
ToggledHabit_StaleOnRemove(habit, dateStr) ==
    LET index == IndexOf(habit.completedDates, dateStr)
        dates == IF index > 0 THEN RemoveAt(habit.completedDates, index)
                 ELSE Append(habit.completedDates, dateStr)
        streak == IF index > 0 THEN habit.currentStreak ELSE calculateStreak(dates)
    IN [habit EXCEPT !.completedDates = dates,
                     !.currentStreak = streak,
                     !.longestStreak = Max(habit.longestStreak, streak)]

\* The date is pushed without looking for it first.
ToggledHabit_AlwaysPush(habit, dateStr) ==
    LET dates == Append(habit.completedDates, dateStr)
        streak == calculateStreak(dates)
    IN [habit EXCEPT !.completedDates = dates,
                     !.currentStreak = streak,
                     !.longestStreak = Max(habit.longestStreak, streak)]

\* The habit after toggling dateStr: the date is spliced out if present,
\* pushed otherwise; then both streak fields are recomputed.
ToggledHabit(habit, dateStr) ==
    LET index == IndexOf(habit.completedDates, dateStr)
        dates == IF index > 0 THEN RemoveAt(habit.completedDates, index)
                 ELSE Append(habit.completedDates, dateStr)
        streak == calculateStreak(dates)
    IN [habit EXCEPT !.completedDates = dates,
                     !.currentStreak = streak,
                     !.longestStreak = Max(habit.longestStreak, streak)]

toggleHabitCompletion(s, habitId, dateStr) ==
    LET habits == getHabits(s)
        i == FindIndex(habits, habitId)
    IN IF i > 0
       THEN Set(s, KEYS.HABITS, Some([habits EXCEPT ![i] = ToggledHabit(habits[i], dateStr)]))
       ELSE s

deleteHabit(s, id) ==
    Set(s, KEYS.HABITS, Some(SelectSeq(getHabits(s), LAMBDA h : h.id # id)))

\* The streak renderHabitsView and renderStreaks print for a habit.
ShownStreak(habit) == habit.currentStreak

\* -------------------------------------------------------------- tasks
\* What addNewTask hands to Storage.addTask.
TaskInputs ==
    { [title |-> "Write report", priority |-> "high", category |-> "work",
       duration |-> 90, date |-> getTodayStr] }

\* The record Storage.addTask builds.
NewTask(task) ==
    Merge([id |-> generateId, createdAt |-> now, completed |-> FALSE,
           completedAt |-> Null], task)

addTask(s, task) == Set(s, KEYS.TASKS, Some(Append(getTasks(s), NewTask(task))))

\* `updates.completed`: the patch sets completed to true.
SetsCompleted(updates) == "completed" \in DOMAIN updates /\ updates.completed

\* Mutant of UpdatedTask: the merge puts the priority back to its default.
UpdatedTask_ResetPriority(task, updates) ==
    LET merged == [Merge(task, updates) EXCEPT !.priority = "medium"]
    IN IF SetsCompleted(updates) /\ merged.completedAt = Null
       THEN [merged EXCEPT !.completedAt = Some(now)]
       ELSE merged

\* Mutant of UpdatedTask: completedAt is stamped on every completion.
UpdatedTask_Restamp(task, updates) ==
    LET merged == Merge(task, updates)
    IN IF SetsCompleted(updates)
       THEN [merged EXCEPT !.completedAt = Some(now)]
       ELSE merged

\* tasks[index] after updateTask: the patch merged over the task, and
\* completedAt stamped if the patch completes a task that has no stamp.
UpdatedTask(task, updates) ==
    LET merged == Merge(task, updates)
    IN IF SetsCompleted(updates) /\ merged.completedAt = Null
       THEN [merged EXCEPT !.completedAt = Some(now)]
       ELSE merged

\* Mutant of updateTask: an unknown id is stored as a new record.
updateTask_Upsert(s, id, updates) ==
    LET tasks == getTasks(s)
        index == FindIndex(tasks, id)
    IN IF index > 0
       THEN Set(s, KEYS.TASKS, Some([tasks EXCEPT ![index] = UpdatedTask(tasks[index], updates)]))
       ELSE Set(s, KEYS.TASKS, Some(Append(tasks, Merge([id |-> id], updates))))

updateTask(s, id, updates) ==
    LET tasks == getTasks(s)
        index == FindIndex(tasks, id)
    IN IF index > 0
       THEN Set(s, KEYS.TASKS, Some([tasks EXCEPT ![index] = UpdatedTask(tasks[index], updates)]))
       ELSE s

\* What updateTask returns: <<the updated task>>, or null.
updateTaskReturn(s, id, updates) ==
    LET tasks == getTasks(s)
        index == FindIndex(tasks, id)
    IN IF index > 0 THEN Some(UpdatedTask(tasks[index], updates)) ELSE Null

getTasksForDate(s, dateStr) == SelectSeq(getTasks(s), LAMBDA t : t.date = dateStr)

\* percent of App.updateCapacity: the capacity ring of the daily view.
updateCapacityPercent(s, dateStr, maxCapacity) ==
    calculateCapacityPercent(PlannedMinutes(getTasksForDate(s, dateStr)), maxCapacity)

deleteTask(s, id) ==
    Set(s, KEYS.TASKS, Some(SelectSeq(getTasks(s), LAMBDA t : t.id # id)))

moveTask(s, id, newDate) == updateTask(s, id, [date |-> newDate])

\* The date the shutdown ritual moves a task to: a local day after now,
\* formatted by formatDateStr.
TomorrowStr == ToISODate(SetDateRel(now, 1))

getSettings(s) == IF Falsy(Get(s, KEYS.SETTINGS)) THEN DefaultSettings ELSE Get(s, KEYS.SETTINGS)[1]

setSettings(s, settings) == Set(s, KEYS.SETTINGS, Some(Merge(getSettings(s), settings)))

\* ---------------------------------------------------------- time blocks
\* this.get(KEYS.TIME_BLOCKS) || []
getAllTimeBlocks(s) == OrEmpty(Get(s, KEYS.TIME_BLOCKS))

\* Storage.getTimeBlocks: the blocks of one date.
getTimeBlocks(s, dateStr) == SelectSeq(getAllTimeBlocks(s), LAMBDA b : b.date = dateStr)

\* What the add-time-block dialog passes to Storage.addTimeBlock.
BlockInputs ==
    { [title |-> "Deep work", startTime |-> "09:00", endTime |-> "10:00",
       category |-> "work", date |-> getTodayStr] }

\* The record Storage.addTimeBlock builds: { id, ...block }.
NewBlock(block) == Merge([id |-> generateId], block)

addTimeBlock(s, block) ==
    Set(s, KEYS.TIME_BLOCKS, Some(Append(getAllTimeBlocks(s), NewBlock(block))))

deleteTimeBlock(s, id) ==
    Set(s, KEYS.TIME_BLOCKS, Some(SelectSeq(getAllTimeBlocks(s), LAMBDA b : b.id # id)))

\* ----------------------------------------------------------- daily data
\* this.get(KEYS.DAILY_DATA) || {}: the entries by date.
getAllDailyData(s) ==
    IF Falsy(Get(s, KEYS.DAILY_DATA)) THEN [d \in {} |-> <<>>] ELSE Get(s, KEYS.DAILY_DATA)[1]

\* What the daily view saves: the mood picked, or the energy level.
DailyDataInputs == { [mood |-> 4], [energy |-> 2] }

\* Storage.setDailyData: data merged over the entry of the date.
setDailyData(s, dateStr, data) ==
    LET allData == getAllDailyData(s)
        entry == IF dateStr \in DOMAIN allData THEN allData[dateStr] ELSE [f \in {} |-> <<>>]
    IN Set(s, KEYS.DAILY_DATA,
           Some([d \in (DOMAIN allData) \union {dateStr} |->
                    IF d = dateStr THEN Merge(entry, data) ELSE allData[d]]))

\* ---------------------------------------------------- weekly objectives
\* this.get(KEYS.WEEKLY_OBJECTIVES) || []
getAllWeeklyObjectives(s) == OrEmpty(Get(s, KEYS.WEEKLY_OBJECTIVES))

getWeeklyObjectives(s, weekStart) ==
    SelectSeq(getAllWeeklyObjectives(s), LAMBDA o : o.weekStart = weekStart)

\* What showAddObjectiveModal hands to Storage.addWeeklyObjective: the title
\* and App.currentWeek (the week start taken at start-up) as a date string.
ObjectiveInputs ==
    { [title |-> "Complete project proposal", weekStart |-> formatDateStr(currentWeek)] }

NewObjective(objective) == Merge([id |-> generateId, completed |-> FALSE], objective)

addWeeklyObjective(s, objective) ==
    Set(s, KEYS.WEEKLY_OBJECTIVES,
        Some(Append(getAllWeeklyObjectives(s), NewObjective(objective))))

toggleWeeklyObjective(s, id) ==
    LET objectives == getAllWeeklyObjectives(s)
        i == FindIndex(objectives, id)
    IN IF i > 0
       THEN Set(s, KEYS.WEEKLY_OBJECTIVES,
                Some([objectives EXCEPT ![i].completed = ~objectives[i].completed]))
       ELSE s

\* --------------------------------------------------------------- goals
\* Storage.getGoals: the stored object, or an empty one.
getGoals(s) ==
    IF Falsy(Get(s, KEYS.GOALS))
    THEN [yearly |-> <<>>, monthly |-> <<>>, lifeAreas |-> [area \in {} |-> <<>>]]
    ELSE Get(s, KEYS.GOALS)[1]

GoalTypes == {"yearly", "monthly", "lifeArea"}

\* The area argument: null, one of the life areas, or another string.
GoalAreas == {Null, Some("health"), Some("travel")}

\* What the goal modals hand to Storage.addGoal.
GoalInputs == { [title |-> "Run a marathon"] }

NewGoal(goal) == Merge([id |-> generateId, createdAt |-> now, progress |-> 0], goal)

\* goals.lifeAreas[area], [] when the area has no list yet.
AreaGoals(goals, area) ==
    IF area \in DOMAIN goals.lifeAreas THEN goals.lifeAreas[area] ELSE <<>>

\* The goals object after addGoal pushed the new goal on the list its type
\* (and area) names; no list is touched for any other type.
GoalsWithNew(goals, type, goal, area) ==
    IF type = "lifeArea" /\ area # Null
    THEN [goals EXCEPT !.lifeAreas =
             [a \in (DOMAIN goals.lifeAreas) \union {area[1]} |->
                 IF a = area[1] THEN Append(AreaGoals(goals, a), NewGoal(goal))
                 ELSE goals.lifeAreas[a]]]
    ELSE IF type = "yearly" THEN [goals EXCEPT !.yearly = Append(@, NewGoal(goal))]
    ELSE IF type = "monthly" THEN [goals EXCEPT !.monthly = Append(@, NewGoal(goal))]
    ELSE goals

addGoal(s, type, goal, area) ==
    Set(s, KEYS.GOALS, Some(GoalsWithNew(getGoals(s), type, goal, area)))

\* targetArray of updateGoalProgress: <<the list>>, or null (undefined).
TargetArray(goals, type, area) ==
    IF type = "lifeArea" /\ area # Null
    THEN IF area[1] \in DOMAIN goals.lifeAreas THEN Some(goals.lifeAreas[area[1]]) ELSE Null
    ELSE IF type = "yearly" THEN Some(goals.yearly)
    ELSE IF type = "monthly" THEN Some(goals.monthly)
    ELSE Null

\* The goals object with the progress of the goal at index i of that list set.
GoalsWithProgress(goals, type, area, i, progress) ==
    IF type = "lifeArea" /\ area # Null
    THEN [goals EXCEPT !.lifeAreas[area[1]][i].progress = progress]
    ELSE IF type = "yearly" THEN [goals EXCEPT !.yearly[i].progress = progress]
    ELSE [goals EXCEPT !.monthly[i].progress = progress]

updateGoalProgress(s, type, id, progress, area) ==
    LET goals == getGoals(s)
        targetArray == TargetArray(goals, type, area)
        i == IF targetArray = Null THEN 0 ELSE FindIndex(targetArray[1], id)
    IN IF i > 0
       THEN Set(s, KEYS.GOALS, Some(GoalsWithProgress(goals, type, area, i, progress)))
       ELSE s

\* ----------------------------------------------------------- statistics
\* tasks.filter(t => t.date >= startDate && t.date <= endDate), as the set of
\* positions in the task list.
TasksInRange(tasks, startDate, endDate) ==
    { i \in 1..Len(tasks) : tasks[i].date >= startDate /\ tasks[i].date <= endDate }

\* The completed dates of one habit that lie in the range.
DatesInRange(habit, startDate, endDate) ==
    { i \in 1..Len(habit.completedDates) :
        habit.completedDates[i] >= startDate /\ habit.completedDates[i] <= endDate }

\* habitCompletions: the count over all habits.
RECURSIVE HabitCompletions(_, _, _)
HabitCompletions(habits, startDate, endDate) ==
    IF habits = <<>> THEN 0
    ELSE Cardinality(DatesInRange(Head(habits), startDate, endDate))
         + HabitCompletions(Tail(habits), startDate, endDate)

\* while (current <= end) { habitPossible++; current.setDate(current.getDate() + 1) }
RECURSIVE DaysCounted(_, _)
DaysCounted(current, end) ==
    IF current <= end THEN 1 + DaysCounted(SetDateRel(current, 1), end) ELSE 0

\* habitPossible: the days counted from new Date(startDate) to
\* new Date(endDate), once for every habit.
HabitPossible(habits, startDate, endDate) ==
    Len(habits) * DaysCounted(ParseISODate(startDate), ParseISODate(endDate))

\* The dates of the range whose entry has a mood.
MoodDates(dailyData, startDate, endDate) ==
    { d \in DOMAIN dailyData :
        /\ d >= startDate /\ d <= endDate
        /\ "mood" \in DOMAIN dailyData[d] /\ dailyData[d].mood # 0 }

RECURSIVE SumMood(_, _)
SumMood(dailyData, dates) ==
    IF dates = {} THEN 0
    ELSE LET d == CHOOSE x \in dates : TRUE
         IN dailyData[d].mood + SumMood(dailyData, dates \ {d})

\* focusMinutes: duration || 30 over the completed tasks of the range.
RECURSIVE SumDurations(_, _)
SumDurations(tasks, positions) ==
    IF positions = {} THEN 0
    ELSE LET i == CHOOSE x \in positions : TRUE
         IN DurationOr30(tasks[i]) + SumDurations(tasks, positions \ {i})

\* Math.round((num / den) * 100) on doubles, for num / den < 2.  The exact
\* value is rounded, halves up, except where it lies on a half and the
\* double product falls below it: the quotients k / 200 with k in this set
\* (23 / 40 is 115 / 200: the product is 57.49999999999999).
PercentBelowHalf == { 29, 57, 113, 115, 201, 203, 205, 207, 251, 253, 255 }

RoundPercent(num, den) ==
    LET halfUp == (200 * num + den) \div (2 * den)
    IN IF (200 * num) % den = 0 /\ ((200 * num) \div den) \in PercentBelowHalf
       THEN halfUp - 1
       ELSE halfUp

\* (num / den).toFixed(1) on doubles, as its number of tenths, for
\* num / den < 24.  The double nearest num / den is rounded to the nearest
\* tenth; where num / den lies on a half tenth the double may lie below it:
\* at the quotients k / 20 with k in this set (9 / 60 is 3 / 20: the double
\* is 0.1499999999999999944, "0.1").
TenthsBelowHalf ==
    {
      3, 7, 17, 19, 23, 29, 33, 39, 41, 43, 51, 53, 61, 63, 71, 73, 81,
      87, 91, 97, 101, 107, 111, 117, 121, 127, 131, 137, 141, 147, 151,
      157, 167, 169, 177, 179, 187, 189, 197, 199, 207, 209, 217, 219,
      227, 229, 237, 239, 247, 249, 257, 259, 267, 269, 277, 279, 287,
      289, 297, 299, 307, 309, 317, 319, 323, 329, 333, 339, 343, 349,
      353, 359, 363, 369, 373, 379, 383, 389, 393, 399, 403, 409, 413,
      419, 423, 429, 433, 439, 443, 449, 453, 459, 463, 469, 473, 479 }

toFixed1(num, den) ==
    LET halfUp == (20 * num + den) \div (2 * den)
    IN IF (20 * num) % den = 0 /\ ((20 * num) \div den) \in TenthsBelowHalf
       THEN halfUp - 1
       ELSE halfUp

\* Storage.getProductivityStats.  averageMood and focusHours are the
\* toFixed(1) strings, held as their number of tenths ("4.0" is 40).
getProductivityStats(s, startDate, endDate) ==
    LET tasks == getTasks(s)
        habits == getHabits(s)
        dailyData == getAllDailyData(s)
        tasksInRange == TasksInRange(tasks, startDate, endDate)
        completedTasks == { i \in tasksInRange : tasks[i].completed }
        habitCompletions == HabitCompletions(habits, startDate, endDate)
        habitPossible == HabitPossible(habits, startDate, endDate)
        moodDates == MoodDates(dailyData, startDate, endDate)
        totalMood == SumMood(dailyData, moodDates)
        moodCount == Cardinality(moodDates)
        focusMinutes == SumDurations(tasks, completedTasks)
    IN [totalTasks |-> Cardinality(tasksInRange),
        completedTasks |-> Cardinality(completedTasks),
        completionRate |-> IF Cardinality(tasksInRange) > 0
                           THEN RoundPercent(Cardinality(completedTasks), Cardinality(tasksInRange))
                           ELSE 0,
        habitCompletionRate |-> IF habitPossible > 0
                                THEN RoundPercent(habitCompletions, habitPossible)
                                ELSE 0,
        averageMood |-> IF moodCount > 0 THEN Some(toFixed1(totalMood, moodCount)) ELSE Null,
        focusHours |-> toFixed1(focusMinutes, 60)]

\* ------------------------------------------------------ export / import
\* Storage.exportData: one field per name in Object.keys(KEYS), holding what
\* get reads under that name's storage key; JSON.stringify then JSON.parse
\* gives the same document back.
exportData(s) == [name \in KeyNames |-> Get(s, KEYS[name])]

\* Mutant of ImportedKeys: every top-level key of the document is imported.
ImportedKeys_All(data) == DOMAIN data

\* Storage.importData on a parsed document: each top-level key that is one of
\* Object.values(KEYS) is set to the document's value.
ImportedKeys(data) == { key \in DOMAIN data : key \in StorageKeys }

importData(s, data) ==
    [key \in DOMAIN s |->
        IF key \in ImportedKeys(data) THEN Set(s, key, data[key])[key] ELSE s[key]]

\* A text handed to importData is represented by whether it is valid JSON
\* and what it spells out: <<the object>>, or null for the text "null" (for
\* a broken text: <<the object up to where it breaks>>).
\* JSON.parse of the text: <<what it spells out>>, or null when it throws.
JSONParse(text) == IF text.valid THEN Some(text.doc) ELSE Null

\* The try block of importData throws: JSON.parse does, or Object.keys does,
\* handed the null that JSON.parse returned.
importDataThrows(text) == JSONParse(text) = Null \/ JSONParse(text)[1] = Null

\* Mutant of importDataText: what a broken text spells out is imported.
importDataText_Partial(s, text) ==
    IF text.doc = Null THEN s ELSE importData(s, text.doc[1])

\* Storage.importData on a text: nothing is set when the try block throws.
importDataText(s, text) ==
    IF importDataThrows(text) THEN s ELSE importData(s, JSONParse(text)[1][1])

\* What importData returns: false when the try block threw.
importDataReturn(text) == ~importDataThrows(text)

\* Backup files cut short: the text breaks off after these entries.
MalformedTexts ==
    { [valid |-> FALSE, doc |-> Some([zenith_theme |-> Some("dark")])],
      [valid |-> FALSE,
       doc |-> Some([zenith_tasks |-> Some(<<>>), zenith_habits |-> Some(<<>>)])] }

\* The text "null": valid JSON that spells out no object.
NullTexts == { [valid |-> TRUE, doc |-> Null] }

\* Backup files written by hand, keyed by the storage keys.
ForeignBackups ==
    { [zenith_theme |-> Some("dark")],
      [zenith_theme |-> Some("light"), zenith_tasks |-> Some(<<>>)],
      [zenith_habits |-> Some(<<>>), TASKS |-> Some(<<>>), app_version |-> Some("2")] }

\* Backup files that hold a number, a boolean or a string where the app
\* keeps collections.
FalsyBackups ==
    { [zenith_tasks |-> JsonZero],
      [zenith_tasks |-> JsonZero, zenith_settings |-> JsonFalse,
       zenith_daily_data |-> JsonEmptyString] }

\* A backup file that holds settings of its own and a user without a name.
SettingsBackups ==
    { [zenith_settings |-> Some([workStart |-> "10:00", workEnd |-> "18:00",
                                 dailyCapacity |-> 4, pomodoroLength |-> 50,
                                 breakLength |-> 10]),
       zenith_user |-> Some([onboardingComplete |-> TRUE])] }

\* -------------------------------------------------------- focus session
\* App.stopFocusMode: the interval App.focusTimer refers to is cleared.
StoppedIntervals ==
    IF focusTimer # Null
    THEN [i \in (DOMAIN intervals) \ {focusTimer[1]} |-> intervals[i]]
    ELSE intervals

\* App.focusTaskId as stopFocusMode leaves it.
FocusTaskIdAfterStop == Null

\* App.completeFocusSession: stopFocusMode runs first, then the task named by
\* focusTaskId (as it then is) is marked completed through updateTask.
CompletedSessionStore ==
    IF FocusTaskIdAfterStop # Null
    THEN updateTask(store, FocusTaskIdAfterStop[1], [completed |-> TRUE])
    ELSE store

\* ------------------------------------------------------------ actions
\* Number of completed dates stored, over all habits.
RECURSIVE TotalCompleted(_)
TotalCompleted(habits) ==
    IF habits = <<>> THEN 0
    ELSE Len(Head(habits).completedDates) + TotalCompleted(Tail(habits))

UNCHANGED_focus ==
    UNCHANGED <<focusTimer, focusTimeRemaining, focusTaskId, intervals, nextInterval, pauseBound>>

AddHabit(habit) ==
    /\ nextId < MaxHabits
    /\ store' = addHabit(store, habit)
    /\ nextId' = generateId
    /\ lastOp' = [op |-> "addHabit", id |-> generateId, ok |-> TRUE]
    /\ UNCHANGED <<now, tz, onboarding, settingsForm, currentWeek, setItemThrows, utilArgs, utilResult, exported, toggles, streakInput, streakResult>>
    /\ UNCHANGED_focus

ToggleHabitCompletion(habitId, dateStr) ==
    LET habits == getHabits(store)
        i == FindIndex(habits, habitId)
    IN /\ i > 0 /\ dateStr \notin Range(habits[i].completedDates)
            => TotalCompleted(habits) < MaxCompleted
       /\ store' = toggleHabitCompletion(store, habitId, dateStr)
       /\ toggles' = IF i = 0 THEN toggles
                     ELSE IF <<habitId, dateStr>> \in toggles
                     THEN toggles \ {<<habitId, dateStr>>}
                     ELSE toggles \union {<<habitId, dateStr>>}
       /\ lastOp' = [op |-> "toggleHabitCompletion", id |-> habitId, ok |-> i > 0]
       /\ UNCHANGED <<now, tz, onboarding, settingsForm, currentWeek, setItemThrows, utilArgs, utilResult, nextId, exported, streakInput, streakResult>>
       /\ UNCHANGED_focus

DeleteHabit(id) ==
    /\ store' = deleteHabit(store, id)
    /\ toggles' = { t \in toggles : t[1] # id }
    /\ lastOp' = [op |-> "deleteHabit", id |-> id, ok |-> TRUE]
    /\ UNCHANGED <<now, tz, onboarding, settingsForm, currentWeek, setItemThrows, utilArgs, utilResult, nextId, exported, streakInput, streakResult>>
    /\ UNCHANGED_focus

\* A calendar day goes by.
DayPasses ==
    /\ ToISODate(now + 24) <= FirstDay + MaxDay
    /\ now' = now + 24
    /\ lastOp' = [op |-> "dayPasses", id |-> 0, ok |-> TRUE]
    /\ UNCHANGED <<store, tz, onboarding, settingsForm, currentWeek, setItemThrows, utilArgs, utilResult, nextId, exported, toggles, streakInput, streakResult>>
    /\ UNCHANGED_focus

\* App.addNewTask while fewer than limit tasks are stored.
AddTaskUpTo(task, limit) ==
    /\ Len(getTasks(store)) < limit
    /\ nextId < MaxIds
    /\ store' = addTask(store, task)
    /\ nextId' = generateId
    /\ lastOp' = [op |-> "addTask", id |-> generateId, ok |-> TRUE]
    /\ UNCHANGED <<now, tz, onboarding, settingsForm, currentWeek, setItemThrows, utilArgs, utilResult, exported, toggles, streakInput, streakResult>>
    /\ UNCHANGED_focus

AddTask(task) == AddTaskUpTo(task, MaxTasks)

\* Storage.updateTask(id, {completed: value}).
UpdateTask(id, updates) ==
    /\ store' = updateTask(store, id, updates)
    /\ lastOp' = [op |-> "updateTask", id |-> id,
                  ok |-> updateTaskReturn(store, id, updates) # Null]
    /\ UNCHANGED <<now, tz, onboarding, settingsForm, currentWeek, setItemThrows, utilArgs, utilResult, nextId, exported, toggles, streakInput, streakResult>>
    /\ UNCHANGED_focus

\* App.toggleTask: the checkbox of a listed task.
ToggleTask(taskId) ==
    LET tasks == getTasks(store)
        i == FindIndex(tasks, taskId)
    IN /\ i > 0
       /\ store' = updateTask(store, taskId, [completed |-> ~tasks[i].completed])
       /\ lastOp' = [op |-> "toggleTask", id |-> taskId, ok |-> TRUE]
       /\ UNCHANGED <<now, tz, onboarding, settingsForm, currentWeek, setItemThrows, utilArgs, utilResult, nextId, exported, toggles, streakInput, streakResult>>
       /\ UNCHANGED_focus

\* The shutdown ritual's "Move to Tomorrow".
MoveTask(id) ==
    /\ store' = moveTask(store, id, TomorrowStr)
    /\ lastOp' = [op |-> "moveTask", id |-> id, ok |-> TRUE]
    /\ UNCHANGED <<now, tz, onboarding, settingsForm, currentWeek, setItemThrows, utilArgs, utilResult, nextId, exported, toggles, streakInput, streakResult>>
    /\ UNCHANGED_focus

DeleteTask(id) ==
    /\ store' = deleteTask(store, id)
    /\ lastOp' = [op |-> "deleteTask", id |-> id, ok |-> TRUE]
    /\ UNCHANGED <<now, tz, onboarding, settingsForm, currentWeek, setItemThrows, utilArgs, utilResult, nextId, exported, toggles, streakInput, streakResult>>
    /\ UNCHANGED_focus

AddWeeklyObjective(objective) ==
    /\ nextId < MaxObjectives
    /\ store' = addWeeklyObjective(store, objective)
    /\ nextId' = generateId
    /\ lastOp' = [op |-> "addWeeklyObjective", id |-> generateId, ok |-> TRUE]
    /\ UNCHANGED <<now, tz, onboarding, settingsForm, currentWeek, setItemThrows, utilArgs, utilResult, exported, toggles, streakInput, streakResult>>
    /\ UNCHANGED_focus

\* The objective's checkbox, or Storage.toggleWeeklyObjective called with
\* any id (it returns nothing; ok records whether the id was found).
ToggleWeeklyObjective(id) ==
    /\ store' = toggleWeeklyObjective(store, id)
    /\ lastOp' = [op |-> "toggleWeeklyObjective", id |-> id,
                  ok |-> FindIndex(getAllWeeklyObjectives(store), id) > 0]
    /\ UNCHANGED <<now, tz, onboarding, settingsForm, currentWeek, setItemThrows, utilArgs, utilResult, nextId, exported, toggles, streakInput, streakResult>>
    /\ UNCHANGED_focus

AddGoal(type, goal, area) ==
    /\ nextId < MaxGoals
    /\ store' = addGoal(store, type, goal, area)
    /\ nextId' = generateId
    /\ lastOp' = [op |-> "addGoal", id |-> generateId, ok |-> TRUE]
    /\ UNCHANGED <<now, tz, onboarding, settingsForm, currentWeek, setItemThrows, utilArgs, utilResult, exported, toggles, streakInput, streakResult>>
    /\ UNCHANGED_focus

\* Storage.updateGoalProgress (it returns nothing; ok records whether a goal
\* with the id was found in the list the type and area name).
UpdateGoalProgress(type, id, progress, area) ==
    LET targetArray == TargetArray(getGoals(store), type, area)
    IN /\ store' = updateGoalProgress(store, type, id, progress, area)
       /\ lastOp' = [op |-> "updateGoalProgress", id |-> id,
                     ok |-> targetArray # Null /\ FindIndex(targetArray[1], id) > 0]
       /\ UNCHANGED <<now, tz, onboarding, settingsForm, currentWeek, setItemThrows, utilArgs, utilResult, nextId, exported, toggles, streakInput, streakResult>>
       /\ UNCHANGED_focus

SetDailyData(dateStr, data) ==
    /\ store' = setDailyData(store, dateStr, data)
    /\ lastOp' = [op |-> "setDailyData", id |-> 0, ok |-> TRUE]
    /\ UNCHANGED <<now, tz, onboarding, settingsForm, currentWeek, utilArgs, utilResult, setItemThrows, nextId, exported, toggles, streakInput, streakResult>>
    /\ UNCHANGED_focus

\* The prev-week and next-week buttons: currentWeek.setDate(getDate() + 7 * k),
\* k = -1 or 1, within MaxWeeks weeks of the present one.
NavigateWeek(k) ==
    /\ SetDateRel(currentWeek, 7 * k) - getWeekStart(now) \in -(MaxWeeks * 168 + 1)..(MaxWeeks * 168 + 1)
    /\ currentWeek' = SetDateRel(currentWeek, 7 * k)
    /\ lastOp' = [op |-> "navigateWeek", id |-> 0, ok |-> TRUE]
    /\ UNCHANGED <<store, now, tz, onboarding, settingsForm, setItemThrows, utilArgs, utilResult, nextId, exported, toggles, streakInput, streakResult>>
    /\ UNCHANGED_focus

\* The save button of the add-time-block dialog.
AddTimeBlock(block) ==
    /\ nextId < MaxBlocks
    /\ store' = addTimeBlock(store, block)
    /\ nextId' = generateId
    /\ lastOp' = [op |-> "addTimeBlock", id |-> generateId, ok |-> TRUE]
    /\ UNCHANGED <<now, tz, onboarding, settingsForm, currentWeek, setItemThrows, utilArgs, utilResult, exported, toggles, streakInput, streakResult>>
    /\ UNCHANGED_focus

DeleteTimeBlock(id) ==
    /\ store' = deleteTimeBlock(store, id)
    /\ lastOp' = [op |-> "deleteTimeBlock", id |-> id, ok |-> TRUE]
    /\ UNCHANGED <<now, tz, onboarding, settingsForm, currentWeek, setItemThrows, utilArgs, utilResult, nextId, exported, toggles, streakInput, streakResult>>
    /\ UNCHANGED_focus

\* Storage.getProductivityStats(startDate, endDate): the store is only read.
GetProductivityStats(startDate, endDate) ==
    /\ lastOp' = [op |-> "getProductivityStats", id |-> 0, ok |-> TRUE,
                  startDate |-> startDate, endDate |-> endDate,
                  stats |-> getProductivityStats(store, startDate, endDate)]
    /\ UNCHANGED <<store, now, tz, onboarding, settingsForm, currentWeek, setItemThrows, utilArgs, utilResult, nextId, exported, toggles, streakInput, streakResult>>
    /\ UNCHANGED_focus

\* localStorage runs out of quota, or gets room again.
QuotaChange ==
    /\ setItemThrows' = ~setItemThrows
    /\ lastOp' = [op |-> "quotaChange", id |-> 0, ok |-> TRUE]
    /\ UNCHANGED <<store, now, tz, onboarding, settingsForm, currentWeek, utilArgs, utilResult, nextId, exported, toggles, streakInput, streakResult>>
    /\ UNCHANGED_focus

\* Utils.getWeekStart called on the date drawn.
ApplyGetWeekStart ==
    /\ utilArgs.fn = "getWeekStart"
    /\ utilResult = Null
    /\ utilResult' = Some(getWeekStart(utilArgs.date))
    /\ lastOp' = [op |-> "getWeekStart", id |-> 0, ok |-> TRUE]
    /\ UNCHANGED <<store, now, tz, onboarding, settingsForm, currentWeek, setItemThrows, utilArgs, nextId, exported, toggles, streakInput, streakResult>>
    /\ UNCHANGED_focus

\* Utils.getCalendarDays called on the month drawn.
ApplyGetCalendarDays ==
    /\ utilArgs.fn = "getCalendarDays"
    /\ utilResult = Null
    /\ utilResult' = Some(getCalendarDays(utilArgs.year, utilArgs.month))
    /\ lastOp' = [op |-> "getCalendarDays", id |-> 0, ok |-> TRUE]
    /\ UNCHANGED <<store, now, tz, onboarding, settingsForm, currentWeek, setItemThrows, utilArgs, nextId, exported, toggles, streakInput, streakResult>>
    /\ UNCHANGED_focus

ApplyGetCapacityStatus ==
    /\ utilArgs.fn = "getCapacityStatus"
    /\ utilResult = Null
    /\ utilResult' = Some(getCapacityStatus(utilArgs.percent))
    /\ lastOp' = [op |-> "getCapacityStatus", id |-> 0, ok |-> TRUE]
    /\ UNCHANGED <<store, now, tz, onboarding, settingsForm, currentWeek, setItemThrows, utilArgs, nextId, exported, toggles, streakInput, streakResult>>
    /\ UNCHANGED_focus

ApplyCalculateCapacityPercent ==
    /\ utilArgs.fn = "calculateCapacityPercent"
    /\ utilResult = Null
    /\ utilResult' = Some(calculateCapacityPercent(utilArgs.planned, utilArgs.capacity))
    /\ lastOp' = [op |-> "calculateCapacityPercent", id |-> 0, ok |-> TRUE]
    /\ UNCHANGED <<store, now, tz, onboarding, settingsForm, currentWeek, setItemThrows, utilArgs, nextId, exported, toggles, streakInput, streakResult>>
    /\ UNCHANGED_focus

\* App.updateCapacity on a store holding the tasks drawn.
ApplyUpdateCapacity ==
    /\ utilArgs.fn = "updateCapacity"
    /\ utilResult = Null
    /\ utilResult' = Some(updateCapacityPercent(Set(store, KEYS.TASKS, Some(utilArgs.tasks)),
                                                utilArgs.dateStr, utilArgs.maxCapacity))
    /\ lastOp' = [op |-> "updateCapacity", id |-> 0, ok |-> TRUE]
    /\ UNCHANGED <<store, now, tz, onboarding, settingsForm, currentWeek, setItemThrows, utilArgs, nextId, exported, toggles, streakInput, streakResult>>
    /\ UNCHANGED_focus

ApplyGenerateBarHeights ==
    /\ utilArgs.fn = "generateBarHeights"
    /\ utilResult = Null
    /\ utilResult' = Some(generateBarHeights(utilArgs.data, utilArgs.maxHeight))
    /\ lastOp' = [op |-> "generateBarHeights", id |-> 0, ok |-> TRUE]
    /\ UNCHANGED <<store, now, tz, onboarding, settingsForm, currentWeek, setItemThrows, utilArgs, nextId, exported, toggles, streakInput, streakResult>>
    /\ UNCHANGED_focus

\* An hour goes by.
HourPasses ==
    /\ now < TransitionDay * 24 + MaxHours
    /\ now' = now + 1
    /\ lastOp' = [op |-> "hourPasses", id |-> 0, ok |-> TRUE]
    /\ UNCHANGED <<store, tz, onboarding, settingsForm, currentWeek, setItemThrows, utilArgs, utilResult, nextId, exported, toggles, streakInput, streakResult>>
    /\ UNCHANGED_focus

\* ---------------------------------------------------- text of a field
\* What an input field holds is the sequence of its UTF-16 code units, so
\* that trim and parseInt can be computed on it: 32 is a blank, 45 "-",
\* 48..57 the digits, 65..90 "A".."Z", 97..122 "a".."z".
\* The white space and line terminators String.prototype.trim and parseInt
\* strip: tab, line feed, vertical tab, form feed, carriage return, blank,
\* no-break space, U+1680, U+2000..U+200A, U+2028, U+2029, U+202F, U+205F,
\* U+3000 and U+FEFF.
WhiteSpace ==
    {9, 10, 11, 12, 13, 32, 160, 5760, 8232, 8233, 8239, 8287, 12288, 65279}
        \union (8192..8202)

\* String.prototype.trim: white space is removed from both ends.
RECURSIVE TrimStart(_)
TrimStart(text) ==
    IF Len(text) > 0 /\ Head(text) \in WhiteSpace THEN TrimStart(Tail(text)) ELSE text

RECURSIVE TrimEnd(_)
TrimEnd(text) ==
    IF Len(text) > 0 /\ text[Len(text)] \in WhiteSpace
    THEN TrimEnd(SubSeq(text, 1, Len(text) - 1))
    ELSE text

Trim(text) == TrimEnd(TrimStart(text))

\* The decimal digits of a natural number.
RECURSIVE NatToText(_)
NatToText(n) ==
    IF n < 10 THEN <<48 + n>> ELSE Append(NatToText(n \div 10), 48 + (n % 10))

\* The string an integer becomes when it is assigned to the value of a field.
ToText(n) == IF n < 0 THEN <<45>> \o NatToText(-n) ELSE NatToText(n)

\* parseInt without a radix: leading white space is skipped and a sign is
\* read; after "0x" or "0X" the digits are hexadecimal, otherwise decimal;
\* the digits are read up to the first character that is not one, and what
\* follows is ignored.  (The texts handled are short: the value is far below
\* 2^53 and no rounding takes place.)
\* The value of a character as a digit; 36 when it is none in any radix.
DigitValue(c) ==
    IF c \in 48..57 THEN c - 48
    ELSE IF c \in 97..122 THEN c - 87
    ELSE IF c \in 65..90 THEN c - 55
    ELSE 36

Signed(text) == Len(TrimStart(text)) > 0 /\ Head(TrimStart(text)) \in {43, 45}
Unsigned(text) == IF Signed(text) THEN Tail(TrimStart(text)) ELSE TrimStart(text)

HasHexPrefix(text) ==
    /\ Len(Unsigned(text)) >= 2
    /\ Unsigned(text)[1] = 48
    /\ Unsigned(text)[2] \in {88, 120}

Radix(text) == IF HasHexPrefix(text) THEN 16 ELSE 10

RECURSIVE LeadingDigits(_, _)
LeadingDigits(text, radix) ==
    IF Len(text) > 0 /\ DigitValue(Head(text)) < radix
    THEN <<Head(text)>> \o LeadingDigits(Tail(text), radix)
    ELSE <<>>

\* The digits parseInt reads.
ParsedDigits(text) ==
    LeadingDigits(IF HasHexPrefix(text) THEN SubSeq(Unsigned(text), 3, Len(Unsigned(text)))
                                        ELSE Unsigned(text),
                  Radix(text))

RECURSIVE DigitsValue(_, _)
DigitsValue(digits, radix) ==
    IF Len(digits) = 0
    THEN 0
    ELSE DigitsValue(SubSeq(digits, 1, Len(digits) - 1), radix) * radix
            + DigitValue(digits[Len(digits)])

\* parseInt returns NaN: no digit where the number should start.
ParseIntIsNaN(text) == Len(ParsedDigits(text)) = 0

\* What parseInt returns when it is a number.
ParseInt(text) ==
    IF Signed(text) /\ Head(TrimStart(text)) = 45
    THEN 0 - DigitsValue(ParsedDigits(text), Radix(text))
    ELSE DigitsValue(ParsedDigits(text), Radix(text))

\* A number as JSON.stringify writes it and JSON.parse reads it back: NaN
\* becomes null.
JSONNumber(text) == IF ParseIntIsNaN(text) THEN Null ELSE ParseInt(text)

\* App.loadUserData throws: the stored user is truthy and has no name, so
\* `user.name.charAt` is read from undefined.
loadUserDataThrows(s) == ~Falsy(getUser(s)) /\ "name" \notin DOMAIN getUser(s)[1]

\* App.init shows the dialog unless the store holds a user who completed
\* onboarding; handleOnboarding starts at step 1 with these data.
InitOnboarding(s) ==
    [shown |-> ~hasCompletedOnboarding(s), currentStep |-> 1,
     userData |-> [name |-> <<>>, workStart |-> "09:00", workEnd |-> "17:00",
                   dailyCapacity |-> 5]]

\* What the fields of the dialog hold when a button is clicked: the name as
\* typed, and the working hours.
OnboardingNames == { <<32>>, <<65, 110, 110, 32>> }    \* " " and "Ann "
OnboardingWorkStarts == {"08:00"}
OnboardingWorkEnds == {"17:00"}

\* data-hours of the capacity button clicked.
OnboardingCapacities == {6}

\* userData after the click handler of the next button has saved the step's
\* fields.
OnboardingSaved(name, workStart, workEnd) ==
    IF onboarding.currentStep = 1
    THEN [onboarding.userData EXCEPT !.name = Trim(name)]
    ELSE IF onboarding.currentStep = 2
    THEN [onboarding.userData EXCEPT !.workStart = workStart, !.workEnd = workEnd]
    ELSE onboarding.userData

\* The click handler of the onboarding dialog's next button.  Step 1 needs a
\* name that is not empty once trimmed; steps 1 and 2 save their fields and move on; step 3 stores the user
\* with onboardingComplete and createdAt, merges the working hours and the
\* capacity into the settings, and hides the dialog.
OnboardingNext(name, workStart, workEnd) ==
    LET userData == OnboardingSaved(name, workStart, workEnd)
        user == [name |-> userData.name, workStart |-> userData.workStart,
                 workEnd |-> userData.workEnd, dailyCapacity |-> userData.dailyCapacity,
                 onboardingComplete |-> TRUE, createdAt |-> now]
    IN /\ onboarding.shown
       /\ IF onboarding.currentStep = 1 /\ Len(Trim(name)) = 0
          THEN UNCHANGED <<store, onboarding>>
          ELSE IF onboarding.currentStep < 3
          THEN /\ onboarding' = [onboarding EXCEPT !.currentStep = @ + 1,
                                                   !.userData = userData]
               /\ UNCHANGED store
          ELSE /\ store' = setSettings(setUser(store, user),
                                       [workStart |-> userData.workStart,
                                        workEnd |-> userData.workEnd,
                                        dailyCapacity |-> userData.dailyCapacity])
               /\ onboarding' = [onboarding EXCEPT !.shown = FALSE, !.userData = userData]
       /\ lastOp' = [op |-> "onboardingNext", id |-> onboarding.currentStep,
                     ok |-> ~(onboarding.currentStep = 1 /\ Len(Trim(name)) = 0)]
       /\ UNCHANGED <<now, tz, settingsForm, currentWeek, setItemThrows, utilArgs, utilResult, nextId, exported, toggles, streakInput, streakResult>>
       /\ UNCHANGED_focus

\* The click handler of the back button.
OnboardingBack ==
    /\ onboarding.shown
    /\ onboarding' = [onboarding EXCEPT !.currentStep = IF @ > 1 THEN @ - 1 ELSE @]
    /\ lastOp' = [op |-> "onboardingBack", id |-> onboarding.currentStep,
                  ok |-> onboarding.currentStep > 1]
    /\ UNCHANGED <<store, now, tz, settingsForm, currentWeek, setItemThrows, utilArgs, utilResult, nextId, exported, toggles, streakInput, streakResult>>
    /\ UNCHANGED_focus

\* The click handler of a capacity button of the dialog.
OnboardingCapacity(hours) ==
    /\ onboarding.shown
    /\ onboarding' = [onboarding EXCEPT !.userData.dailyCapacity = hours]
    /\ lastOp' = [op |-> "onboardingCapacity", id |-> onboarding.currentStep, ok |-> TRUE]
    /\ UNCHANGED <<store, now, tz, settingsForm, currentWeek, setItemThrows, utilArgs, utilResult, nextId, exported, toggles, streakInput, streakResult>>
    /\ UNCHANGED_focus

\* The fields of the settings dialog before showSettings has filled them.
InitSettingsForm ==
    [shown |-> FALSE, name |-> <<>>, workStart |-> "", workEnd |-> "",
     capacity |-> <<>>, pomodoro |-> <<>>, break |-> <<>>]

\* `user.name || ''` of showSettings, user being `Storage.getUser() || {}`.
SettingsName(s) ==
    IF Falsy(getUser(s)) \/ "name" \notin DOMAIN getUser(s)[1]
    THEN <<>>
    ELSE getUser(s)[1].name

\* App.showSettings: the six fields are filled from the stored user and
\* settings, and the dialog is shown.
ShowSettings ==
    LET settings == getSettings(store)
    IN /\ settingsForm' = [shown |-> TRUE,
                           name |-> SettingsName(store),
                           workStart |-> settings.workStart,
                           workEnd |-> settings.workEnd,
                           capacity |-> ToText(settings.dailyCapacity),
                           pomodoro |-> ToText(settings.pomodoroLength),
                           break |-> ToText(settings.breakLength)]
       /\ lastOp' = [op |-> "showSettings", id |-> 0, ok |-> TRUE]
       /\ UNCHANGED <<store, now, tz, onboarding, currentWeek, setItemThrows, utilArgs, utilResult, nextId, exported, toggles, streakInput, streakResult>>
       /\ UNCHANGED_focus

\* The user types into a field of the dialog while it is shown.
EditSettings(field, text) ==
    /\ settingsForm.shown
    /\ settingsForm' = [settingsForm EXCEPT ![field] = text]
    /\ lastOp' = [op |-> "editSettings", id |-> 0, ok |-> TRUE]
    /\ UNCHANGED <<store, now, tz, onboarding, currentWeek, setItemThrows, utilArgs, utilResult, nextId, exported, toggles, streakInput, streakResult>>
    /\ UNCHANGED_focus

\* The click handler of the dialog's close button.
CloseSettings ==
    /\ settingsForm.shown
    /\ settingsForm' = [settingsForm EXCEPT !.shown = FALSE]
    /\ lastOp' = [op |-> "closeSettings", id |-> 0, ok |-> TRUE]
    /\ UNCHANGED <<store, now, tz, onboarding, currentWeek, setItemThrows, utilArgs, utilResult, nextId, exported, toggles, streakInput, streakResult>>
    /\ UNCHANGED_focus

\* App.saveSettings, the click handler of the dialog's save button: the
\* stored user (or a new one) gets the trimmed name field as its name, the
\* settings are merged with the fields as they stand (parseInt of the three
\* numbers), loadUserData shows the stored user, and the dialog is hidden.
\* When loadUserData throws (setItem threw, so the stored user is still one
\* without a name) the handler ends there and the dialog stays shown.
SaveSettings ==
    LET user == Merge(IF Falsy(getUser(store)) THEN <<>> ELSE getUser(store)[1],
                      [name |-> Trim(settingsForm.name)])
    IN /\ settingsForm.shown
       /\ store' = setSettings(setUser(store, user),
                               [workStart |-> settingsForm.workStart,
                                workEnd |-> settingsForm.workEnd,
                                dailyCapacity |-> JSONNumber(settingsForm.capacity),
                                pomodoroLength |-> JSONNumber(settingsForm.pomodoro),
                                breakLength |-> JSONNumber(settingsForm.break)])
       /\ settingsForm' = [settingsForm EXCEPT !.shown = loadUserDataThrows(store')]
       /\ lastOp' = [op |-> "saveSettings", id |-> 0, ok |-> ~loadUserDataThrows(store')]
       /\ UNCHANGED <<now, tz, onboarding, currentWeek, setItemThrows, utilArgs, utilResult, nextId, exported, toggles, streakInput, streakResult>>
       /\ UNCHANGED_focus

\* App.startFocusMode followed by startFocusTimer: a new interval is
\* registered with its own isPaused = false, and the pause button is bound to
\* it. Nothing happens when the task is not found.
StartFocusMode(taskId) ==
    LET found == FindIndex(getTasks(store), taskId) > 0
        id == nextInterval + 1
    IN /\ nextInterval < MaxIntervals
       /\ getSettings(store).pomodoroLength <= MaxPomodoro
       /\ lastOp' = [op |-> "startFocusMode", id |-> taskId, ok |-> found]
       /\ IF found
          THEN /\ focusTaskId' = Some(taskId)
               /\ focusTimeRemaining' = getSettings(store).pomodoroLength * 60
               /\ focusTimer' = Some(id)
               /\ intervals' = [i \in (DOMAIN intervals) \union {id} |->
                                   IF i = id THEN FALSE ELSE intervals[i]]
               /\ nextInterval' = id
               /\ pauseBound' = Some(id)
          ELSE UNCHANGED_focus
       /\ UNCHANGED <<store, now, tz, onboarding, settingsForm, currentWeek, setItemThrows, utilArgs, utilResult, nextId, exported, toggles, streakInput, streakResult>>

\* One firing of the interval callback registered as interval i. lastOp
\* keeps the task the session was running for and whether this tick brought
\* the counter to 0.
FocusTick(i) ==
    /\ i \in DOMAIN intervals
    /\ lastOp' = [op |-> "focusTick",
                  id |-> IF focusTaskId = Null THEN 0 ELSE focusTaskId[1],
                  ok |-> ~intervals[i] /\ focusTimeRemaining = 1]
    /\ IF ~intervals[i] /\ focusTimeRemaining > 0
       THEN /\ focusTimeRemaining' = focusTimeRemaining - 1
            /\ IF focusTimeRemaining - 1 = 0
               THEN /\ intervals' = StoppedIntervals
                    /\ focusTimer' = Null
                    /\ focusTaskId' = Null
                    /\ store' = CompletedSessionStore
               ELSE UNCHANGED <<intervals, focusTimer, focusTaskId, store>>
       ELSE UNCHANGED <<focusTimeRemaining, intervals, focusTimer, focusTaskId, store>>
    /\ UNCHANGED <<now, tz, onboarding, settingsForm, currentWeek, setItemThrows, utilArgs, utilResult, nextId, nextInterval, pauseBound, exported, toggles, streakInput, streakResult>>

\* The pause button (visible while the focus overlay is shown): isPaused of
\* the closure it was last bound to flips.
PauseClick ==
    /\ focusTimer # Null
    /\ pauseBound # Null
    /\ intervals' = [i \in DOMAIN intervals |->
                        IF i = pauseBound[1] THEN ~intervals[i] ELSE intervals[i]]
    /\ lastOp' = [op |-> "pauseClick", id |-> pauseBound[1], ok |-> TRUE]
    /\ UNCHANGED <<store, now, tz, onboarding, settingsForm, currentWeek, setItemThrows, utilArgs, utilResult, nextId, focusTimer, focusTimeRemaining, focusTaskId,
                   nextInterval, pauseBound, exported, toggles, streakInput, streakResult>>

\* App.stopFocusMode: the stop and exit buttons, and the Escape key.
StopFocusMode ==
    /\ intervals' = StoppedIntervals
    /\ focusTimer' = Null
    /\ focusTaskId' = Null
    /\ lastOp' = [op |-> "stopFocusMode", id |-> 0, ok |-> TRUE]
    /\ UNCHANGED <<store, now, tz, onboarding, settingsForm, currentWeek, setItemThrows, utilArgs, utilResult, nextId, focusTimeRemaining, nextInterval, pauseBound,
                   exported, toggles, streakInput, streakResult>>

\* App.toggleTheme: Storage.setTheme.
SetTheme(theme) ==
    /\ store' = Set(store, KEYS.THEME, Some(theme))
    /\ lastOp' = [op |-> "setTheme", id |-> 0, ok |-> TRUE]
    /\ UNCHANGED <<now, tz, onboarding, settingsForm, currentWeek, setItemThrows, utilArgs, utilResult, nextId, exported, toggles, streakInput, streakResult>>
    /\ UNCHANGED_focus

ExportData ==
    /\ exported' = Some(exportData(store))
    /\ lastOp' = [op |-> "exportData", id |-> 0, ok |-> TRUE]
    /\ UNCHANGED <<store, now, tz, onboarding, settingsForm, currentWeek, setItemThrows, utilArgs, utilResult, nextId, toggles, streakInput, streakResult>>
    /\ UNCHANGED_focus

\* Storage.importData of the document exportData last returned.
ImportExported ==
    /\ exported # Null
    /\ store' = importData(store, exported[1])
    /\ lastOp' = [op |-> "importData", id |-> 1, ok |-> TRUE, valid |-> TRUE, doc |-> exported[1]]
    /\ UNCHANGED <<now, tz, onboarding, settingsForm, currentWeek, setItemThrows, utilArgs, utilResult, nextId, exported, toggles, streakInput, streakResult>>
    /\ UNCHANGED_focus

\* Storage.importData of another well-formed backup.
ImportBackup(data) ==
    /\ store' = importData(store, data)
    /\ lastOp' = [op |-> "importData", id |-> 0, ok |-> TRUE, valid |-> TRUE, doc |-> data]
    /\ UNCHANGED <<now, tz, onboarding, settingsForm, currentWeek, setItemThrows, utilArgs, utilResult, nextId, exported, toggles, streakInput, streakResult>>
    /\ UNCHANGED_focus

\* Storage.importData of a text that is not a JSON object: JSON.parse throws,
\* or it returns null and Object.keys throws.
ImportMalformed(text) ==
    /\ store' = importDataText(store, text)
    /\ lastOp' = [op |-> "importData", id |-> 0, ok |-> importDataReturn(text),
                  valid |-> text.valid, doc |-> text.doc]
    /\ UNCHANGED <<now, tz, onboarding, settingsForm, currentWeek, setItemThrows, utilArgs, utilResult, nextId, exported, toggles, streakInput, streakResult>>
    /\ UNCHANGED_focus

ClearAll ==
    /\ store' = ClearAllOn(store)
    /\ toggles' = {}
    /\ lastOp' = [op |-> "clearAll", id |-> 0, ok |-> TRUE]
    /\ UNCHANGED <<now, tz, onboarding, settingsForm, currentWeek, setItemThrows, utilArgs, utilResult, nextId, exported, streakInput, streakResult>>
    /\ UNCHANGED_focus

\* App.resetData with the confirmation accepted: Storage.clearAll, then
\* Storage.init, the settings dialog hidden, then showOnboarding.  The
\* onboarding dialog is shown again as its handlers left it: currentStep and
\* userData are kept.
ResetData ==
    /\ store' = StorageInitOn(ClearAllOn(store))
    /\ settingsForm' = [settingsForm EXCEPT !.shown = FALSE]
    /\ onboarding' = [onboarding EXCEPT !.shown = TRUE]
    /\ toggles' = {}
    /\ lastOp' = [op |-> "resetData", id |-> 0, ok |-> TRUE]
    /\ UNCHANGED <<now, tz, currentWeek, setItemThrows, utilArgs, utilResult, nextId, exported, streakInput, streakResult>>
    /\ UNCHANGED_focus

StorageInit ==
    /\ store' = StorageInitOn(store)
    /\ lastOp' = [op |-> "init", id |-> 0, ok |-> TRUE]
    /\ UNCHANGED <<now, tz, onboarding, settingsForm, currentWeek, setItemThrows, utilArgs, utilResult, nextId, exported, toggles, streakInput, streakResult>>
    /\ UNCHANGED_focus

\* Storage.calculateStreak called on the list.
ApplyCalculateStreak ==
    /\ streakResult = Null
    /\ streakResult' = Some(calculateStreak(streakInput))
    /\ lastOp' = [op |-> "calculateStreak", id |-> 0, ok |-> TRUE]
    /\ UNCHANGED <<store, now, tz, onboarding, settingsForm, currentWeek, setItemThrows, utilArgs, utilResult, nextId, exported, toggles, streakInput>>
    /\ UNCHANGED_focus

\* The state App.init leaves: Storage.init run on an empty localStorage.
\* The state after App.init, but for the store and the ids handed out.
InitExceptStore ==
    /\ setItemThrows = FALSE
    /\ now = TransitionDay * 24
    /\ tz \in TimeZones
    /\ currentWeek = getWeekStart(now)
    /\ utilArgs = [fn |-> "none"]
    /\ utilResult = Null
    /\ focusTimer = Null
    /\ focusTimeRemaining = 0
    /\ focusTaskId = Null
    /\ intervals = <<>>
    /\ nextInterval = 0
    /\ pauseBound = Null
    /\ exported = Null
    /\ toggles = {}
    /\ lastOp = [op |-> "init", id |-> 0, ok |-> TRUE]
    /\ streakInput = <<>>
    /\ streakResult = Null

\* The state after App.init on an empty localStorage.
Init ==
    /\ InitExceptStore
    /\ store = StorageInitOn(EmptyStore)
    /\ nextId = 0
    /\ onboarding = InitOnboarding(store)
    /\ settingsForm = InitSettingsForm

NextHabits ==
    \/ \E habit \in HabitInputs : AddHabit(habit)
    \/ \E habitId \in HabitIds, dateStr \in Days : ToggleHabitCompletion(habitId, dateStr)
    \/ \E id \in HabitIds : DeleteHabit(id)
    \/ DayPasses

SpecHabits == Init /\ [][NextHabits]_vars

TaskPatches == { [completed |-> TRUE], [completed |-> FALSE] }

NextTasks ==
    \/ \E task \in TaskInputs : AddTask(task)
    \/ \E id \in Ids, updates \in TaskPatches : UpdateTask(id, updates)
    \/ \E id \in Ids : ToggleTask(id)
    \/ \E id \in Ids : MoveTask(id)
    \/ \E id \in Ids : DeleteTask(id)
    \/ HourPasses

SpecTasks == Init /\ [][NextTasks]_vars

\* What is typed into the pomodoro field of the settings dialog: a negative
\* length, 0, and the longest one a session is started with.
PomodoroLengths == {-1, 0, MaxPomodoro}
PomodoroTexts == { ToText(p) : p \in PomodoroLengths }

NextFocus ==
    \/ \E task \in TaskInputs : AddTask(task)
    \/ ShowSettings
    \/ \E text \in PomodoroTexts : EditSettings("pomodoro", text)
    \/ SaveSettings
    \/ \E id \in Ids : StartFocusMode(id)
    \/ \E i \in 1..MaxIntervals : FocusTick(i)
    \/ PauseClick
    \/ StopFocusMode

SpecFocus == Init /\ [][NextFocus]_vars

\* The pause button pressed while the session is paused.
Resume ==
    /\ pauseBound # Null /\ pauseBound[1] \in DOMAIN intervals /\ intervals[pauseBound[1]]
    /\ PauseClick

\* A firing of interval i while its isPaused is false.
Countdown(i) == i \in DOMAIN intervals /\ ~intervals[i] /\ FocusTick(i)

\* Focus sessions the user never stops.
NextFocusLive ==
    \/ \E task \in TaskInputs : AddTask(task)
    \/ ShowSettings
    \/ \E text \in PomodoroTexts : EditSettings("pomodoro", text)
    \/ SaveSettings
    \/ CloseSettings
    \/ \E id \in Ids : StartFocusMode(id)
    \/ \E i \in 1..MaxIntervals : FocusTick(i)
    \/ PauseClick

\* setInterval keeps firing every registered callback, so one that is again
\* and again not paused fires while not paused; a paused session is resumed.
SpecFocusLive ==
    /\ Init /\ [][NextFocusLive]_vars
    /\ \A i \in 1..MaxIntervals : SF_vars(Countdown(i))
    /\ WF_vars(Resume)

NextStore ==
    \/ \E task \in TaskInputs : AddTask(task)
    \/ \E habit \in HabitInputs : AddHabit(habit)
    \/ \E theme \in {"light", "dark"} : SetTheme(theme)
    \/ ExportData
    \/ ImportExported
    \/ \E data \in ForeignBackups : ImportBackup(data)
    \/ \E text \in MalformedTexts \union NullTexts : ImportMalformed(text)
    \/ ClearAll
    \/ StorageInit

SpecStore == Init /\ [][NextStore]_vars

\* Start-up: the onboarding dialog, Storage.init, and what can come between
\* two runs of it.
NextStartup ==
    \/ \E name \in OnboardingNames, workStart \in OnboardingWorkStarts,
          workEnd \in OnboardingWorkEnds : OnboardingNext(name, workStart, workEnd)
    \/ OnboardingBack
    \/ \E hours \in OnboardingCapacities : OnboardingCapacity(hours)
    \/ \E task \in TaskInputs : AddTask(task)
    \/ \E theme \in {"light", "dark"} : SetTheme(theme)
    \/ \E data \in ForeignBackups \union FalsyBackups : ImportBackup(data)
    \/ ClearAll
    \/ StorageInit
    \/ ResetData

SpecStartup == Init /\ [][NextStartup]_vars

\* What is typed into the fields of the settings dialog: a name with blanks
\* around it, the start of work, and numbers with a fraction, a hexadecimal
\* prefix, white space or a unit.
SettingsNames == { <<160, 66, 111, 13, 10>> }    \* a no-break space, "Bo", CR and LF
SettingsTimes == { "10:30" }
SettingsCapacities == { <<55, 46, 53>>, <<48, 120, 49, 48>> }    \* "7.5" and "0x10"
SettingsBreaks == { <<13, 49, 53, 109>> }    \* a carriage return and "15m"

\* The settings dialog, between onboarding, an import, a reset and
\* localStorage running out of quota.
NextSettings ==
    \/ \E name \in OnboardingNames, workStart \in OnboardingWorkStarts,
          workEnd \in OnboardingWorkEnds : OnboardingNext(name, workStart, workEnd)
    \/ ShowSettings
    \/ \E text \in SettingsNames : EditSettings("name", text)
    \/ \E text \in SettingsTimes : EditSettings("workStart", text)
    \/ \E text \in SettingsCapacities : EditSettings("capacity", text)
    \/ \E text \in SettingsBreaks : EditSettings("break", text)
    \/ SaveSettings
    \/ CloseSettings
    \/ \E data \in SettingsBackups : ImportBackup(data)
    \/ QuotaChange
    \/ ResetData

SpecSettings == Init /\ [][NextSettings]_vars

\* Date objects: every hour of the days from the Monday before TransitionDay
\* on.
FirstUtilDay == TransitionDay - 6
UtilDates == { d * 24 + h : d \in FirstUtilDay..(FirstUtilDay + MaxUtilDay), h \in 0..23 }

\* The Utils functions as pure functions: the function and its arguments.
\* Planned minutes: 0..MaxPlanned, and ten hours.
PlannedInputs == (0..MaxPlanned) \union {600}

\* Stored tasks as updateCapacity reads them: the date, and a duration that
\* may be missing or 0.
CapacityTasks ==
    { [date |-> TransitionDay, duration |-> 90], [date |-> TransitionDay, duration |-> 0],
      [date |-> TransitionDay], [date |-> TransitionDay - 1, duration |-> 90] }

CapacityTaskLists == UNION { [1..n -> CapacityTasks] : n \in 0..2 }

\* Chart data: short lists of small counts, and two lists of larger ones.
BarLists ==
    UNION { [1..n -> 0..MaxBarValue] : n \in 0..MaxBars } \union { <<23, 40>>, <<11, 60>> }

\* maxHeight: the default, and 100 pixels.
BarMaxHeights == {150, 100}

UtilInputs ==
    { [fn |-> "getWeekStart", date |-> u] : u \in UtilDates }
    \union { [fn |-> "getCapacityStatus", percent |-> percent] : percent \in 0..MaxPercent }
    \union { [fn |-> "calculateCapacityPercent", planned |-> planned, capacity |-> capacity] :
                planned \in PlannedInputs, capacity \in 1..MaxCapacity }
    \union { [fn |-> "generateBarHeights", data |-> data, maxHeight |-> maxHeight] :
                data \in BarLists, maxHeight \in BarMaxHeights }
    \union { [fn |-> "updateCapacity", tasks |-> tasks, dateStr |-> TransitionDay,
               maxCapacity |-> DefaultSettings.dailyCapacity] : tasks \in CapacityTaskLists }
    \union { [fn |-> "getCalendarDays", year |-> 1970 + (m \div 12), month |-> m % 12] :
                m \in FirstMonth..(FirstMonth + MaxMonth) }

InitUtils ==
    /\ setItemThrows = FALSE
    /\ store = StorageInitOn(EmptyStore)
    /\ now = TransitionDay * 24
    /\ tz \in TimeZones
    /\ onboarding = InitOnboarding(store)
    /\ settingsForm = InitSettingsForm
    /\ currentWeek = getWeekStart(now)
    /\ utilArgs \in UtilInputs
    /\ utilResult = Null
    /\ nextId = 0
    /\ focusTimer = Null
    /\ focusTimeRemaining = 0
    /\ focusTaskId = Null
    /\ intervals = <<>>
    /\ nextInterval = 0
    /\ pauseBound = Null
    /\ exported = Null
    /\ toggles = {}
    /\ lastOp = [op |-> "init", id |-> 0, ok |-> TRUE]
    /\ streakInput = <<>>
    /\ streakResult = Null

NextUtils ==
    \/ ApplyGetWeekStart
    \/ ApplyGetCalendarDays
    \/ ApplyGetCapacityStatus
    \/ ApplyCalculateCapacityPercent
    \/ ApplyUpdateCapacity
    \/ ApplyGenerateBarHeights

SpecUtils == InitUtils /\ [][NextUtils]_vars

\* The repositories on a localStorage whose setItem may throw.
NextQuota ==
    \/ \E task \in TaskInputs : AddTask(task)
    \/ \E id \in Ids, updates \in TaskPatches : UpdateTask(id, updates)
    \/ \E id \in Ids : DeleteTask(id)
    \/ \E habit \in HabitInputs : AddHabit(habit)
    \/ \E habitId \in HabitIds : ToggleHabitCompletion(habitId, getTodayStr)
    \/ \E data \in DailyDataInputs : SetDailyData(getTodayStr, data)
    \/ \E goal \in GoalInputs : AddGoal("yearly", goal, Null)
    \/ QuotaChange

\* No operation of this specification depends on the time zone.
InitQuota == Init /\ tz.name = "UTC"

SpecQuota == InitQuota /\ [][NextQuota]_vars

\* A task list one longer than elsewhere, patched by updateTask and moveTask.
\* Tasks, habits and daily data, and the statistics over them.
NextStats ==
    \/ \E task \in TaskInputs : AddTaskUpTo(task, MaxTasks + 1)
    \/ \E id \in Ids : ToggleTask(id)
    \/ \E habit \in HabitInputs : AddHabit(habit)
    \/ \E data \in DailyDataInputs : SetDailyData(getTodayStr, data)
    \/ \E startDate \in Days, endDate \in Days : GetProductivityStats(startDate, endDate)

\* A month of use: forty quarter-hour tasks added on TransitionDay (ids 1 to
\* 40), the first twenty-three of them completed there and then.
BusyTasks ==
    [i \in 1..40 |->
        [id |-> i, title |-> "Inbox", priority |-> "low", category |-> "work",
         duration |-> 9, date |-> TransitionDay, createdAt |-> TransitionDay * 24,
         completed |-> i <= 23,
         completedAt |-> IF i <= 23 THEN Some(TransitionDay * 24) ELSE Null]]

\* The statistics are taken from a new store on, and from that month's.
InitStats ==
    /\ InitExceptStore
    /\ \/ /\ store = StorageInitOn(EmptyStore)
          /\ nextId = 0
       \/ /\ store = [StorageInitOn(EmptyStore) EXCEPT ![KEYS.TASKS] = Some(BusyTasks)]
          /\ nextId = Len(BusyTasks)
    /\ onboarding = InitOnboarding(store)
    /\ settingsForm = InitSettingsForm

SpecStats == InitStats /\ [][NextStats]_vars

\* The weekly view: navigation between weeks and its objectives.
NextWeekly ==
    \/ \E k \in {-1, 1} : NavigateWeek(k)
    \/ \E objective \in ObjectiveInputs : AddWeeklyObjective(objective)
    \/ \E id \in Ids : ToggleWeeklyObjective(id)

SpecWeekly == Init /\ [][NextWeekly]_vars

\* The adds of every repository, and the deletes.
NextAdds ==
    \/ \E task \in TaskInputs : AddTaskUpTo(task, MaxTasks + 1)
    \/ \E id \in Ids : DeleteTask(id)
    \/ \E habit \in HabitInputs : AddHabit(habit)
    \/ \E id \in HabitIds : DeleteHabit(id)
    \/ \E block \in BlockInputs : AddTimeBlock(block)
    \/ \E id \in Ids : DeleteTimeBlock(id)
    \/ \E type \in GoalTypes, goal \in GoalInputs, area \in GoalAreas : AddGoal(type, goal, area)
    \/ \E objective \in ObjectiveInputs : AddWeeklyObjective(objective)
    \/ HourPasses

SpecAdds == Init /\ [][NextAdds]_vars

\* Habits and their completed dates, and the statistics over them.
NextHabitStats ==
    \/ \E habit \in HabitInputs : AddHabit(habit)
    \/ \E habitId \in HabitIds, dateStr \in Days : ToggleHabitCompletion(habitId, dateStr)
    \/ \E startDate \in Days, endDate \in Days : GetProductivityStats(startDate, endDate)

SpecHabitStats == Init /\ [][NextHabitStats]_vars

NextMerge ==
    \/ \E task \in TaskInputs : AddTaskUpTo(task, MaxTasks + 1)
    \/ \E id \in Ids, updates \in TaskPatches : UpdateTask(id, updates)
    \/ \E id \in Ids : ToggleTask(id)
    \/ \E id \in Ids : MoveTask(id)

SpecMerge == Init /\ [][NextMerge]_vars

\* The progress value handed to updateGoalProgress.
ProgressValues == {50}

\* The repositories with their update-by-id operations.
NextRepo ==
    \/ \E task \in TaskInputs : AddTask(task)
    \/ \E id \in Ids, updates \in TaskPatches : UpdateTask(id, updates)
    \/ \E habit \in HabitInputs : AddHabit(habit)
    \/ \E habitId \in Ids : ToggleHabitCompletion(habitId, getTodayStr)
    \/ \E objective \in ObjectiveInputs : AddWeeklyObjective(objective)
    \/ \E id \in Ids : ToggleWeeklyObjective(id)
    \/ \E type \in GoalTypes, goal \in GoalInputs, area \in GoalAreas : AddGoal(type, goal, area)
    \/ \E type \in GoalTypes, id \in Ids, progress \in ProgressValues, area \in GoalAreas :
          UpdateGoalProgress(type, id, progress, area)

SpecRepo == Init /\ [][NextRepo]_vars

\* Lists of at most MaxListLen dates, duplicates and any order allowed.
DateLists == UNION { [1..n -> Days] : n \in 0..MaxListLen }

\* calculateStreak as a pure function: any list, on any day, in any zone.
InitStreak ==
    /\ setItemThrows = FALSE
    /\ store = StorageInitOn(EmptyStore)
    /\ now \in { ParseISODate(d) : d \in Days }
    /\ tz \in TimeZones
    /\ onboarding = InitOnboarding(store)
    /\ settingsForm = InitSettingsForm
    /\ currentWeek = getWeekStart(now)
    /\ utilArgs = [fn |-> "none"]
    /\ utilResult = Null
    /\ nextId = 0
    /\ focusTimer = Null
    /\ focusTimeRemaining = 0
    /\ focusTaskId = Null
    /\ intervals = <<>>
    /\ nextInterval = 0
    /\ pauseBound = Null
    /\ exported = Null
    /\ toggles = {}
    /\ lastOp = [op |-> "init", id |-> 0, ok |-> TRUE]
    /\ streakInput \in DateLists
    /\ streakResult = Null

NextStreak == ApplyCalculateStreak

SpecStreak == InitStreak /\ [][NextStreak]_vars

\* ------------------------------------------------------- habit claims
StoredHabits == Range(getHabits(store))

NoDuplicates(s) == \A i, j \in 1..Len(s) : s[i] = s[j] => i = j

\* C3: every stored habit has longestStreak >= currentStreak, whatever
\* sequence of addHabit, toggleHabitCompletion and deleteHabit led here.
C3_LongestAtLeastCurrent ==
    \A h \in StoredHabits : h.longestStreak >= h.currentStreak

\* A habit whose streak has dropped below its watermark without ending.
C3_Witness ==
    \E h \in StoredHabits : h.longestStreak > h.currentStreak /\ h.currentStreak > 0

\* C4: no step lowers a stored habit's longestStreak, and a
\* toggleHabitCompletion leaves it at max(previous longestStreak, new
\* currentStreak).
C4_LongestIsWatermark ==
    [][\A h \in StoredHabits : \A g \in Range(getHabits(store')) :
          g.id = h.id =>
            /\ g.longestStreak >= h.longestStreak
            /\ (lastOp'.op = "toggleHabitCompletion" /\ lastOp'.id = h.id)
                  => g.longestStreak = Max(h.longestStreak, g.currentStreak)]_vars

\* A toggle has just ended a streak of two days or more; the watermark stays.
C4_Witness ==
    /\ lastOp.op = "toggleHabitCompletion"
    /\ \E h \in StoredHabits :
          h.id = lastOp.id /\ h.longestStreak >= 2 /\ h.currentStreak = 0

\* C5: right after toggleHabitCompletion on an existing habit, its stored
\* currentStreak is calculateStreak of its completedDates as they now are.
C5_CurrentStreakRecomputed ==
    lastOp.op = "toggleHabitCompletion" =>
        \A h \in StoredHabits :
            h.id = lastOp.id => h.currentStreak = calculateStreak(h.completedDates)

\* A toggle has just removed a date and the streak was recomputed to 0 while
\* an older date is still in the list.
C5_Witness ==
    /\ lastOp.op = "toggleHabitCompletion"
    /\ \E h \in StoredHabits :
          /\ h.id = lastOp.id
          /\ Len(h.completedDates) = 1
          /\ h.currentStreak = 0
          /\ h.longestStreak >= 1
          /\ <<h.id, getTodayStr>> \notin toggles

\* C6: in every state the streak the habits view and the analytics streak
\* list show for a habit is the streak of its completedDates on the current
\* day.
C6_ShownStreakIsCurrent ==
    \A h \in StoredHabits : ShownStreak(h) = calculateStreak(h.completedDates)

\* C7: completedDates holds no date twice, and holds exactly the dates toggled
\* an odd number of times.
C7_CompletedDatesIsSet ==
    \A h \in StoredHabits :
        /\ NoDuplicates(h.completedDates)
        /\ \A d \in Days : d \in Range(h.completedDates) <=> <<h.id, d>> \in toggles

\* A habit holding one date while another date was switched on and off again.
C7_Witness ==
    /\ lastOp.op = "toggleHabitCompletion"
    /\ \E h \in StoredHabits :
          /\ h.id = lastOp.id
          /\ Len(h.completedDates) = 1
          /\ h.longestStreak = 2

\* -------------------------------------------------------- store claims
\* C1: importData(exportData()) returns true and leaves every known
\* collection equal to what it held when exportData ran, whatever happened to
\* the store in between (a clearAll included).
C1_ExportImportRoundTrip ==
    (lastOp.op = "importData" /\ lastOp.id = 1) =>
        /\ lastOp.ok
        /\ \A name \in KeyNames : Get(store, KEYS[name]) = exported[1][name]

\* --------------------------------------------------------- task claims
StoredTasks == Range(getTasks(store))

\* C2: the tick that brings focusTimeRemaining to 0 leaves focusTimer null
\* and the task the session was started for completed.
C2_SessionCompletionMarksTask ==
    (lastOp.op = "focusTick" /\ lastOp.ok) =>
        /\ focusTimer = Null
        /\ \E t \in StoredTasks : t.id = lastOp.id /\ t.completed

\* C10: a task's completedAt, once set, never changes and is never reset to
\* null; a task without a stamp gets the current timestamp when a step
\* leaves it completed, and no stamp otherwise.
C10_CompletedAtStampedOnce ==
    [][\A t \in StoredTasks : \A u \in Range(getTasks(store')) :
          u.id = t.id =>
            /\ t.completedAt # Null => u.completedAt = t.completedAt
            /\ (t.completedAt = Null /\ u.completed) => u.completedAt = Some(now)
            /\ (t.completedAt = Null /\ ~u.completed) => u.completedAt = Null]_vars

\* A task completed again by a later update still carries its first stamp.
C10_Witness ==
    /\ lastOp.op \in {"toggleTask", "updateTask"}
    /\ \E t \in StoredTasks :
          /\ t.id = lastOp.id
          /\ t.completed
          /\ t.completedAt # Null
          /\ t.completedAt[1] < now

\* ------------------------------------------------------- streak claims
\* The most recent date of a non-empty set.
Latest(S) == CHOOSE d \in S : \A e \in S : e <= d

\* Length of the longest run of consecutive days in S that ends at day d.
RunEndingAt(S, d) ==
    CHOOSE k \in 1..Cardinality(S) :
        /\ \A j \in 0..(k - 1) : (d - j) \in S
        /\ (d - k) \notin S

\* The streak of a set of dates as section 4.3 defines it.
StreakOfSet(S) ==
    IF S = {} THEN 0
    ELSE IF Latest(S) # getTodayStr /\ Latest(S) # getTodayStr - 1 THEN 0
    ELSE RunEndingAt(S, Latest(S))

\* C8: for a list without duplicates calculateStreak returns 0 when the list
\* is empty or its most recent date is neither today nor yesterday, and
\* otherwise the length of the run of consecutive days ending at that date.
C8_StreakIsRunLength ==
    (streakResult # Null /\ NoDuplicates(streakInput)) =>
        streakResult[1] = StreakOfSet(Range(streakInput))

\* C9: calculateStreak of a list is calculateStreak of the list's dates,
\* each taken once: duplicates and order do not matter.
C9_StreakDependsOnSetOnly ==
    streakResult # Null =>
        \A other \in DateLists :
            Range(other) = Range(streakInput) =>
                calculateStreak(other) = streakResult[1]

\* --------------------------------------------------- repository claims
StoredObjectives == Range(getAllWeeklyObjectives(store))

\* Every goal stored, whatever list it is on.
StoredGoals ==
    LET goals == getGoals(store)
    IN Range(goals.yearly) \union Range(goals.monthly)
       \union UNION { Range(goals.lifeAreas[a]) : a \in DOMAIN goals.lifeAreas }

IdsOf(records) == { r.id : r \in records }

\* C11: an update given an id that its collection does not hold (updateTask,
\* toggleHabitCompletion, toggleWeeklyObjective, updateGoalProgress) leaves
\* the whole store as it was, and returns no record.
C11_NotFoundIsNoOp ==
    [][ /\ (lastOp'.op = "updateTask" /\ lastOp'.id \notin IdsOf(StoredTasks))
             => (store' = store /\ ~lastOp'.ok)
        /\ (lastOp'.op = "toggleHabitCompletion" /\ lastOp'.id \notin IdsOf(StoredHabits))
             => (store' = store /\ ~lastOp'.ok)
        /\ (lastOp'.op = "toggleWeeklyObjective" /\ lastOp'.id \notin IdsOf(StoredObjectives))
             => (store' = store /\ ~lastOp'.ok)
        /\ (lastOp'.op = "updateGoalProgress" /\ lastOp'.id \notin IdsOf(StoredGoals))
             => (store' = store /\ ~lastOp'.ok) ]_vars

\* updateTask was just called with an id no stored task has, while a task is
\* stored.
C11_Witness ==
    /\ lastOp.op = "updateTask" /\ ~lastOp.ok
    /\ StoredTasks # {}
    /\ lastOp.id \notin IdsOf(StoredTasks)

\* The fields of the patch an operation hands to updateTask.
PatchFields(op) == IF op = "moveTask" THEN {"date"} ELSE {"completed"}

\* C12: updateTask on a stored task (directly, by the checkbox, or through
\* moveTask) keeps the length and order of the list and every other task,
\* and keeps every field of the task that the patch does not name, except
\* that completedAt may go from null to a stamp when the patch completes the
\* task; moveTask changes nothing but the date.
C12_UpdateIsShallowMerge ==
    [][ (lastOp'.op \in {"updateTask", "toggleTask", "moveTask"}
         /\ lastOp'.id \in IdsOf(StoredTasks))
        => LET tasks == getTasks(store)
               after == getTasks(store')
               i == FindIndex(tasks, lastOp'.id)
           IN /\ Len(after) = Len(tasks)
              /\ \A j \in 1..Len(tasks) : j # i => after[j] = tasks[j]
              /\ DOMAIN after[i] = DOMAIN tasks[i]
              /\ \A f \in (DOMAIN tasks[i]) \ PatchFields(lastOp'.op) :
                    \/ after[i][f] = tasks[i][f]
                    \/ /\ f = "completedAt"
                       /\ lastOp'.op # "moveTask"
                       /\ tasks[i].completedAt = Null
                       /\ after[i].completed
              /\ \A key \in (DOMAIN store) \ {KEYS.TASKS} : store'[key] = store[key] ]_vars

\* moveTask has just moved the second of two stored tasks, a completed one,
\* to another date than the first.
C12_Witness ==
    LET tasks == getTasks(store)
    IN /\ lastOp.op = "moveTask"
       /\ Len(tasks) = 2
       /\ lastOp.id = tasks[2].id
       /\ tasks[2].completed /\ tasks[2].completedAt # Null
       /\ tasks[2].date # tasks[1].date

\* ------------------------------------------------------- import claims
\* C13: importData of a well-formed document J sets every storage key that
\* is a top-level key of J to J's value, and leaves every other item of the
\* store, known key or not, as it was.
C13_ImportOverwritesKnownKeysOnly ==
    [][ (lastOp'.op = "importData" /\ lastOp'.ok)
        => /\ DOMAIN store' = DOMAIN store
           /\ \A key \in DOMAIN store :
                 store'[key] = IF key \in StorageKeys /\ key \in DOMAIN lastOp'.doc
                               THEN lastOp'.doc[key]
                               ELSE store[key] ]_vars

\* A backup naming a storage key and two other keys has just been imported
\* over a store holding a habit and a task: the habits are replaced, the
\* task is still there.
C13_Witness ==
    /\ lastOp.op = "importData" /\ lastOp.ok
    /\ {"zenith_habits", "TASKS", "app_version"} \subseteq DOMAIN lastOp.doc
    /\ getHabits(store) = <<>>
    /\ getTasks(store) # <<>>
    /\ nextId = MaxIds

\* C14: importData given a text that is not valid JSON returns false and
\* leaves every item of the store as it was.
C14_MalformedImportChangesNothing ==
    [][ (lastOp'.op = "importData" /\ ~lastOp'.valid)
        => (store' = store /\ ~lastOp'.ok) ]_vars

\* A broken backup that starts with the dark theme and an empty task list
\* was just refused by a store holding the light theme and a task.
C14_Witness ==
    /\ lastOp.op = "importData" /\ ~lastOp.valid /\ ~lastOp.ok
    /\ \E text \in MalformedTexts :
          /\ lastOp.doc = text.doc
          /\ \E key \in DOMAIN text.doc[1] : store[key] # text.doc[1][key]
    /\ Get(store, KEYS.THEME) = Some("light")
    /\ getTasks(store) # <<>>

\* ------------------------------------------------------ storage claims
\* The repository mutations.
MutationOps ==
    {"addTask", "updateTask", "deleteTask", "addHabit", "toggleHabitCompletion",
     "setDailyData", "addGoal"}

\* C15: a repository mutation called while localStorage.setItem throws
\* leaves every stored item exactly as it was (the call returns normally:
\* the next operation runs).
C15_FailedWriteIsNoOp ==
    [][ (setItemThrows /\ lastOp'.op \in MutationOps) => store' = store ]_vars

\* addTask was just called while setItem throws: the second id was handed
\* out, and no task is stored.
C15_Witness ==
    /\ setItemThrows
    /\ lastOp.op = "addTask" /\ lastOp.id = MaxIds
    /\ getTasks(store) = <<>>

\* -------------------------------------------------------- focus claims
\* C16: stopFocusMode leaves focusTimer null, and while focusTimer is null
\* (the session was stopped) a firing of an interval callback neither
\* decrements focusTimeRemaining, nor completes a session, nor changes a
\* task.
C16_StoppedSessionStaysStopped ==
    [][ /\ lastOp'.op = "stopFocusMode" => focusTimer' = Null
        /\ (focusTimer = Null /\ lastOp'.op = "focusTick")
             => /\ focusTimeRemaining' = focusTimeRemaining
                /\ ~lastOp'.ok
                /\ store' = store ]_vars

\* The intervals that are registered, i.e. whose callback still fires.
LiveIntervals == DOMAIN intervals

\* C27: at most one focus timer is live: under any interleaving of
\* startFocusMode, pause/resume, stopFocusMode and ticks the only interval
\* that can decrement focusTimeRemaining is the one App.focusTimer refers
\* to, so a start during a running session leaves no earlier interval
\* ticking and stopFocusMode stops all ticking.
C27_AtMostOneLiveTimer ==
    /\ Cardinality(LiveIntervals) <= 1
    /\ focusTimer = Null => LiveIntervals = {}
    /\ focusTimer # Null => LiveIntervals = {focusTimer[1]}

\* The session is paused: isPaused of the closure the pause button is bound to.
SessionPaused ==
    /\ focusTimer # Null
    /\ pauseBound # Null
    /\ pauseBound[1] \in DOMAIN intervals
    /\ intervals[pauseBound[1]]

\* C28: focusTimeRemaining is never negative; apart from startFocusMode it
\* changes only by a tick that takes exactly 1 off; while the session is
\* paused a tick leaves it unchanged, and pausing and resuming leave it as
\* it was.
C28_CounterDiscipline ==
    [][ /\ focusTimeRemaining' >= 0
        /\ lastOp'.op # "startFocusMode"
             => \/ focusTimeRemaining' = focusTimeRemaining
                \/ lastOp'.op = "focusTick" /\ focusTimeRemaining' = focusTimeRemaining - 1
        /\ (lastOp'.op = "focusTick" /\ SessionPaused)
             => focusTimeRemaining' = focusTimeRemaining
        /\ lastOp'.op = "pauseClick" => focusTimeRemaining' = focusTimeRemaining ]_vars

\* C29: every focus session, whatever pomodoroLength it was started with
\* (0 included), ends by itself with focusTimer null when the interval keeps
\* firing, the session is not left paused and the user does not stop it.
C29_SessionEventuallyEnds == (focusTimer # Null) ~> (focusTimer = Null)

\* -------------------------------------------------------- Utils claims
\* C17: getWeekStart(D) is the midnight of a Monday (in local time) that is
\* on D's day or at most 6 days before it, 6 days before when D is a
\* Sunday, and getWeekStart of it is itself.
C17_WeekStartIsMonday ==
    (utilArgs.fn = "getWeekStart" /\ utilResult # Null)
    => LET D == utilArgs.date
           M == utilResult[1]
       IN /\ getDay(M) = 1
          /\ SetHoursZero(M) = M
          /\ LocalDay(D) - LocalDay(M) \in 0..6
          /\ getDay(D) = 0 => LocalDay(D) - LocalDay(M) = 6
          /\ getWeekStart(M) = M

\* getWeekStart was applied to a Sunday, with the end of daylight saving
\* time between the Monday returned and that Sunday.
C17_Witness ==
    /\ utilArgs.fn = "getWeekStart" /\ utilResult # Null
    /\ getDay(utilArgs.date) = 0
    /\ tz.before # tz.after
    /\ utilResult[1] < tz.at /\ tz.at <= utilArgs.date

\* C18: getCalendarDays returns 42 cells whose dates are 42 consecutive
\* (local) days from a Monday on, every 7th cell a Sunday; the cells not
\* flagged isOtherMonth are the days 1..last of the month asked for, in
\* order and numbered so; the cells before them lie in the previous month
\* and those after them in the next month.
C18_CalendarGridShape ==
    (utilArgs.fn = "getCalendarDays" /\ utilResult # Null)
    => LET cells == utilResult[1]
           m == MonthIndex(utilArgs.year, utilArgs.month)
           own == { i \in 1..Len(cells) : ~cells[i].isOtherMonth }
           day(i) == LocalDay(cells[i].date)
       IN /\ Len(cells) = 42
          /\ \A i \in 1..Len(cells) : day(i) = day(1) + i - 1
          /\ getDay(cells[1].date) = 1
          /\ \A k \in 1..6 : getDay(cells[7 * k].date) = 0
          /\ Cardinality(own) = DaysInMonth(m)
          /\ \A i \in own : /\ MonthOf(day(i)) = m
                             /\ cells[i].dayNum = day(i) - FirstOfMonth(m) + 1
          /\ \A i \in (1..Len(cells)) \ own :
                /\ cells[i].dayNum = day(i) - FirstOfMonth(MonthOf(day(i))) + 1
                /\ \/ MonthOf(day(i)) = m - 1 /\ \A j \in own : i < j
                   \/ MonthOf(day(i)) = m + 1 /\ \A j \in own : i > j

\* The grid of a 31-day month that starts on a Sunday was built, in a zone
\* whose daylight saving time ends inside the grid (October 2006): six cells
\* of the previous month, five of the next.
C18_Witness ==
    /\ utilArgs.fn = "getCalendarDays" /\ utilResult # Null
    /\ DaysInMonth(MonthIndex(utilArgs.year, utilArgs.month)) = 31
    /\ tz.before # tz.after
    /\ utilResult[1][1].date < tz.at /\ tz.at < utilResult[1][42].date
    /\ utilResult[1][6].isOtherMonth /\ ~utilResult[1][7].isOtherMonth
    /\ ~utilResult[1][37].isOtherMonth /\ utilResult[1][38].isOtherMonth
    /\ utilResult[1][42].dayNum = 5

\* C19: getCapacityStatus is none ("") up to 80, "warning" above 80 up to
\* 100, and "danger" above 100.
C19_CapacityStatusThresholds ==
    (utilArgs.fn = "getCapacityStatus" /\ utilResult # Null)
    => LET percent == utilArgs.percent
           status == utilResult[1]
       IN /\ percent <= 80 => status = ""
          /\ (80 < percent /\ percent <= 100) => status = "warning"
          /\ percent > 100 => status = "danger"
          /\ percent = 80 => status = ""
          /\ percent = 81 => status = "warning"
          /\ percent = 100 => status = "warning"
          /\ percent = 101 => status = "danger"

\* getCapacityStatus was applied to 101 and said danger.
C19_Witness ==
    /\ utilArgs.fn = "getCapacityStatus" /\ utilResult = Some("danger")
    /\ utilArgs.percent = 101

\* planned / (capacity * 60) * 100 rounded to the nearest integer, halves up.
RoundedPercent(planned, capacity) ==
    CHOOSE n \in 0..(planned * 100) :
        /\ 2 * n * capacity * 60 <= 2 * planned * 100 + capacity * 60
        /\ 2 * planned * 100 + capacity * 60 < 2 * (n + 1) * capacity * 60

\* C20: calculateCapacityPercent(planned, capacity) is planned minutes as a
\* percentage of capacity hours rounded to the nearest integer, not clamped
\* at 100 (600 minutes of 5 hours is 200), and the daily view's percent is
\* that of the summed durations (30 where a task has none) of the tasks of
\* the date (one 90-minute task against 5 hours is 30).
C20_CapacityPercentIsRounded ==
    /\ (utilArgs.fn = "calculateCapacityPercent" /\ utilResult # Null)
        => /\ utilResult[1] = RoundedPercent(utilArgs.planned, utilArgs.capacity)
           /\ (utilArgs.planned = 600 /\ utilArgs.capacity = 5) => utilResult[1] = 200
    /\ (utilArgs.fn = "updateCapacity" /\ utilResult # Null)
        => LET onDate == SelectSeq(utilArgs.tasks, LAMBDA t : t.date = utilArgs.dateStr)
           IN /\ utilResult[1] = RoundedPercent(PlannedMinutes(onDate), utilArgs.maxCapacity)
              /\ (onDate = <<[date |-> TransitionDay, duration |-> 90]>> /\ utilArgs.maxCapacity = 5)
                    => utilResult[1] = 30

\* num / den rounded to the nearest integer, halves up.
RoundedQuotient(num, den) ==
    CHOOSE n \in 0..(num + 1) :
        2 * n * den <= 2 * num + den /\ 2 * num + den < 2 * (n + 1) * den

\* C21: generateBarHeights(values, maxHeight) has the length of values, its
\* element i is values[i] / max(max(values), 1) * maxHeight rounded to the
\* nearest integer and lies in 0..maxHeight; all zeros give all zeros, and
\* [1, 2, 4] with maxHeight 100 gives [25, 50, 100].
C21_BarHeightsAreRounded ==
    (utilArgs.fn = "generateBarHeights" /\ utilResult # Null)
    => LET values == utilArgs.data
           maxHeight == utilArgs.maxHeight
           heights == utilResult[1]
           largest == Max(1, MaxOfData(values))
       IN /\ Len(heights) = Len(values)
          /\ \A i \in 1..Len(values) :
                /\ heights[i] = RoundedQuotient(values[i] * maxHeight, largest)
                /\ heights[i] \in 0..maxHeight
          /\ (\A i \in 1..Len(values) : values[i] = 0)
                => \A i \in 1..Len(values) : heights[i] = 0
          /\ (values = <<1, 2, 4>> /\ maxHeight = 100) => heights = <<25, 50, 100>>

\* ------------------------------------------------------ statistics claims
\* The statistics just computed, with their range.
StatsComputed == lastOp.op = "getProductivityStats"

\* C22: getProductivityStats never divides by zero: with no task in the range
\* completionRate is 0, with no recorded mood averageMood is null (never 0),
\* with no habits habitCompletionRate is 0; with tasks in the range
\* completionRate is completed / total * 100 rounded, over the tasks whose
\* date d has startDate <= d <= endDate.
C22_StatsGuardZeroDenominators ==
    StatsComputed
    => LET startDate == lastOp.startDate
           endDate == lastOp.endDate
           stats == lastOp.stats
           inRange == { t \in StoredTasks : startDate <= t.date /\ t.date <= endDate }
           completed == { t \in inRange : t.completed }
           dailyData == getAllDailyData(store)
           moods == { d \in DOMAIN dailyData :
                        startDate <= d /\ d <= endDate /\ "mood" \in DOMAIN dailyData[d] }
       IN /\ stats.completionRate \in 0..100
          /\ stats.habitCompletionRate \in Nat
          /\ inRange = {} => stats.completionRate = 0
          /\ inRange # {}
                => stats.completionRate
                     = RoundedQuotient(100 * Cardinality(completed), Cardinality(inRange))
          /\ moods = {} => stats.averageMood = Null
          /\ stats.averageMood # Some(0)
          /\ StoredHabits = {} => stats.habitCompletionRate = 0

\* Completed dates of all stored habits that lie in startDate..endDate.
CompletedInRange(startDate, endDate) ==
    { <<h.id, d>> : h \in StoredHabits, d \in startDate..endDate }
        \cap { hd \in IdsOf(StoredHabits) \X Days :
                 \E h \in StoredHabits : h.id = hd[1] /\ hd[2] \in Range(h.completedDates) }

\* C23: habitCompletionRate is C / (numberOfHabits * daysInRange) * 100
\* rounded, where C counts the completed dates in the range over all habits
\* and daysInRange the calendar days from startDate to endDate inclusive,
\* whatever the habits' frequency; with no duplicate completed dates it is an
\* integer in 0..100.
C23_HabitRateOverInclusiveDays ==
    (StatsComputed /\ StoredHabits # {} /\ lastOp.startDate <= lastOp.endDate)
    => LET daysInRange == lastOp.endDate - lastOp.startDate + 1
           count == Cardinality(CompletedInRange(lastOp.startDate, lastOp.endDate))
           rate == lastOp.stats.habitCompletionRate
       IN /\ rate = RoundedQuotient(100 * count, Cardinality(StoredHabits) * daysInRange)
          /\ rate \in 0..100

\* ------------------------------------------------------------ add claims
\* after is before with one record appended.
AppendsOne(before, after) ==
    Len(after) = Len(before) + 1 /\ SubSeq(after, 1, Len(before)) = before

\* The goals of all partitions of a store, as a set.
GoalsOf(s) ==
    LET goals == getGoals(s)
    IN Range(goals.yearly) \union Range(goals.monthly)
       \union UNION { Range(goals.lifeAreas[a]) : a \in DOMAIN goals.lifeAreas }

\* The record an add returns: id and creation timestamp, the defaults of
\* the entity, and the caller's fields over them.
AddedRecord(defaults, inputs) ==
    { Merge(Merge([id |-> lastOp'.id, createdAt |-> now], defaults), input) : input \in inputs }

\* C24: every repository add (addTask, addHabit, addTimeBlock, addGoal,
\* addWeeklyObjective) appends exactly one record: a generated id, a creation
\* timestamp and the defaults of the entity, merged with the caller's fields;
\* the records stored before are unchanged, and no two records of a
\* collection share an id.
C24_AddAppendsStampedRecord ==
    [][ /\ lastOp'.op = "addTask"
            => /\ AppendsOne(getTasks(store), getTasks(store'))
               /\ getTasks(store')[Len(getTasks(store'))]
                     \in AddedRecord([completed |-> FALSE, completedAt |-> Null], TaskInputs)
        /\ lastOp'.op = "addHabit"
            => /\ AppendsOne(getHabits(store), getHabits(store'))
               /\ getHabits(store')[Len(getHabits(store'))]
                     \in AddedRecord([completedDates |-> <<>>, currentStreak |-> 0,
                                      longestStreak |-> 0], HabitInputs)
        /\ lastOp'.op = "addTimeBlock"
            => /\ AppendsOne(getAllTimeBlocks(store), getAllTimeBlocks(store'))
               /\ getAllTimeBlocks(store')[Len(getAllTimeBlocks(store'))]
                     \in AddedRecord([f \in {} |-> 0], BlockInputs)
        /\ lastOp'.op = "addWeeklyObjective"
            => /\ AppendsOne(getAllWeeklyObjectives(store), getAllWeeklyObjectives(store'))
               /\ getAllWeeklyObjectives(store')[Len(getAllWeeklyObjectives(store'))]
                     \in AddedRecord([completed |-> FALSE], ObjectiveInputs)
        /\ lastOp'.op = "addGoal"
            => /\ GoalsOf(store) \subseteq GoalsOf(store')
               /\ GoalsOf(store') \ GoalsOf(store) \in
                     { {g} : g \in AddedRecord([progress |-> 0], GoalInputs) }
        /\ \A records \in { getTasks(store'), getHabits(store'), getAllTimeBlocks(store'),
                             getAllWeeklyObjectives(store') } :
               \A i, j \in 1..Len(records) : records[i].id = records[j].id => i = j
      ]_vars

\* ---------------------------------------------------- weekly view claims
\* C25: every stored weekly objective has as weekStart the ISO date of a
\* Monday: after any navigation to the previous or next week and any add of
\* an objective, in any time zone, the objective just added carries the
\* Monday of the displayed week, and getWeeklyObjectives of that Monday
\* returns it.
C25_WeekStartIsMondayOfDisplayedWeek ==
    /\ \A o \in StoredObjectives : DayOfWeek(o.weekStart) = 1
    /\ lastOp.op = "addWeeklyObjective"
         => \E o \in Range(getWeeklyObjectives(store, LocalDay(currentWeek))) :
               o.id = lastOp.id /\ o.weekStart = LocalDay(currentWeek)

\* ------------------------------------------------------------ goal claims
\* The life areas of the goals document.
LifeAreaKeys == {"career", "health", "relationships", "finance", "learning", "creativity"}

\* The partitions of the goals document that hold a goal of the given id.
PartitionsHolding(id) ==
    LET goals == getGoals(store)
    IN { p \in {"yearly", "monthly"} : \E g \in Range(goals[p]) : g.id = id }
       \union { a \in DOMAIN goals.lifeAreas : \E g \in Range(goals.lifeAreas[a]) : g.id = id }

\* C26: after every call addGoal(type, goal, area) the returned goal is
\* stored in exactly one partition of the goals document (yearly, monthly or
\* the list of one life area), and the keys of lifeAreas stay within
\* {career, health, relationships, finance, learning, creativity}.
C26_GoalInExactlyOnePartition ==
    /\ lastOp.op = "addGoal" => Cardinality(PartitionsHolding(lastOp.id)) = 1
    /\ DOMAIN getGoals(store).lifeAreas \subseteq LifeAreaKeys

\* ----------------------------------------------------------- init claims
\* The keys of the collections and of the settings.
CollectionKeys ==
    {"zenith_tasks", "zenith_habits", "zenith_goals", "zenith_timeblocks",
     "zenith_daily_data", "zenith_weekly_objectives", "zenith_settings"}

\* C30: Storage.init only fills absent keys: it writes the default under a
\* collection key only when the key holds no value, leaves every key that
\* holds a collection (an empty one too) as it is, never touches user or
\* theme, and a second call changes nothing.
C30_InitOnlyFillsAbsentKeys ==
    [][ lastOp'.op = "init"
          => /\ \A key \in DOMAIN store :
                   /\ store[key] # Null => store'[key] = store[key]
                   /\ key \notin CollectionKeys => store'[key] = store[key]
                   /\ (key \in CollectionKeys /\ store[key] = Null)
                        => store'[key] = Some(InitDefaults[key])
             /\ StorageInitOn(store') = store' ]_vars

====
